---- MODULE Spec2Model ----
(***************************************************************************)
(* Model of the Mago VS Code extension host (client/src/extension.ts):     *)
(* the scan pipeline (scanFile / scanProject), the process invoker         *)
(* (runMago and its close / error handlers), the diagnostic publisher      *)
(* (updateDiagnostics, getColumnFromOffset) and the issue index that the   *)
(* code-action provider queries.                                           *)
(* Further: operations of the host in flight together (scans, lintFix and  *)
(* its re-scan timer, deactivate), formatDocument on a document that stays *)
(* open, and the ErrorManager of the language server.                      *)
(***************************************************************************)
EXTENDS Integers, Sequences, FiniteSets, TLC

(***************************************************************************)
(* Bounds of the model.                                                    *)
(***************************************************************************)
\* At most this many issues are reported, in total, by the invocations of one scan.
MaxIssues == 1

\* At most this many operations are in flight together.
MaxTasks == 2

\* At most this many operations are begun in one session.
MaxStarts == 2

\* A document that is formatted has at most this many characters.
MaxText == 3

\* An update of the server reports at most this many issues for a file.
MaxFileIssues == 2

(***************************************************************************)
(* The file system read by getColumnFromOffset.                            *)
(* a.php is readable and holds "ab\ncd"; b.php cannot be read.             *)
(***************************************************************************)
Files == {"a.php", "b.php"}

NL == "\n"

Readable(filePath) == filePath = "a.php"

FileContent(filePath) == <<"a", "b", NL, "c", "d">>

(***************************************************************************)
(* Categories (the subcommand that produced an issue) and the issues the   *)
(* external tool may report for each subcommand.  An issue carries the     *)
(* fields of MagoIssue that the modelled code reads; ann tells whether     *)
(* annotations is empty ("none"), its first element has no span ("nospan") *)
(* or has one ("span"), or has a span without file_id ("nofileid"); level  *)
(* is "undefined" for an issue that has none.                              *)
(***************************************************************************)
Categories == <<"lint", "analysis", "guard">>

CategorySet == {"lint", "analysis", "guard"}

MkIssue(code, message, ann, path, sl, so, el, eo, edits) ==
  [code |-> code, message |-> message, ann |-> ann, path |-> path,
   startLine |-> sl, startOffset |-> so, endLine |-> el, endOffset |-> eo,
   edits |-> edits, level |-> "error"]

\* an issue of the tool's output that has no level
WithoutLevel(issue) == [issue EXCEPT !.level = "undefined"]

\* an issue of the tool's output that has another level
WithLevel(issue, level) == [issue EXCEPT !.level = level]

IssueCodes == {"K1", "K2", "K3"}

LintPool ==
  { MkIssue("K1", "m1", "span", "a.php", 0, 1, 0, 2, TRUE),
    \* same file, start position and code as m1
    MkIssue("K1", "m2", "span", "a.php", 0, 1, 0, 2, FALSE),
    \* annotations: []
    MkIssue("K2", "m3", "none", "a.php", 0, 0, 0, 0, FALSE),
    \* offsets on either side of a line feed that the line numbers do not show
    \* (the file on disk is not the text the tool measured)
    MkIssue("K3", "m4", "span", "a.php", 0, 1, 0, 3, FALSE) }

AnalysisPool ==
  { \* a file that cannot be read
    MkIssue("K1", "m5", "span", "b.php", 1, 4, 1, 5, FALSE),
    \* first annotation without span
    MkIssue("K2", "m6", "nospan", "a.php", 0, 0, 0, 0, FALSE),
    \* a start line below zero, clamped when the range is built
    MkIssue("K1", "m7", "span", "a.php", -1, 0, 0, 1, FALSE) }

GuardPool ==
  { MkIssue("K1", "m8", "span", "a.php", 0, 1, 1, 4, FALSE) }

Pool(cat) ==
  CASE cat = "lint" -> LintPool
    [] cat = "analysis" -> AnalysisPool
    [] OTHER -> GuardPool

\* All sequences over S of length at most n.
SeqsUpTo(S, n) == UNION { [1..k -> S] : k \in 0..n }

Max(a, b) == IF a >= b THEN a ELSE b

Min(a, b) == IF a <= b THEN a ELSE b

(***************************************************************************)
(* getColumnFromOffset: content.substring(0, offset), split on "\n",       *)
(* length of the last piece; 0 when the file cannot be read.               *)
(***************************************************************************)
Substring0(content, offset) ==
  SubSeq(content, 1, Min(Max(offset, 0), Len(content)))

LastLineLength(text) ==
  LET nls == { i \in 1..Len(text) : text[i] = NL }
      last == IF nls = {} THEN 0
              ELSE CHOOSE i \in nls : \A j \in nls : j <= i
  IN Len(text) - last

\* the body of the try block, on the content that was read
ColumnInContent(content, offset) == LastLineLength(Substring0(content, offset))

getColumnFromOffset_noFallback(filePath, offset) ==
  ColumnInContent(FileContent(filePath), offset)

getColumnFromOffset(filePath, offset) ==
  IF Readable(filePath)
  THEN ColumnInContent(FileContent(filePath), offset)
  ELSE 0

\* The characters of a file and their encodings: a character takes ByteWidth
\* bytes in the UTF-8 file that the tool measures, and fs.readFileSync(filePath,
\* 'utf8') yields one UTF-16 code unit for each character of this set.
Characters == {"a", NL, "U+00E9"}

ByteWidth(character) == IF character = "U+00E9" THEN 2 ELSE 1

RECURSIVE ByteLength(_)
ByteLength(text) ==
  IF text = <<>> THEN 0 ELSE ByteWidth(Head(text)) + ByteLength(Tail(text))

\* fs.readFileSync(filePath, 'utf8'): the code units of the decoded text
ReadFileSync(text) == text

(***************************************************************************)
(* vscode.Range(startLine, startCharacter, endLine, endCharacter): the     *)
(* constructor swaps the two positions when the start lies after the end.  *)
(***************************************************************************)
IsAfter(l1, c1, l2, c2) == l1 > l2 \/ (l1 = l2 /\ c1 > c2)

Range(startLine, startCharacter, endLine, endCharacter) ==
  IF IsAfter(startLine, startCharacter, endLine, endCharacter)
  THEN [startLine |-> endLine, startCharacter |-> endCharacter,
        endLine |-> startLine, endCharacter |-> startCharacter]
  ELSE [startLine |-> startLine, startCharacter |-> startCharacter,
        endLine |-> endLine, endCharacter |-> endCharacter]

(***************************************************************************)
(* updateDiagnostics.                                                      *)
(***************************************************************************)
\* A Map with no entry.
EmptyMap == [k \in {} |-> k]

\* Map.set(key, value)
MapSet(map, key, value) == (key :> value) @@ map

\* issue => ({ ...issue, category })
Tag(issue, category) ==
  [f \in DOMAIN issue \cup {"category"} |->
     IF f = "category" THEN category ELSE issue[f]]

TagAll(issues, category) ==
  [i \in 1..Len(issues) |-> Tag(issues[i], category)]

\* The composite code: the category prefix, ":", the issue's code.
CategoryPrefix(category) ==
  IF category = "analysis" THEN "analyze" ELSE category

DiagnosticCode(issue) == CategoryPrefix(issue.category) \o ":" \o issue.code

\* The range built from the span: every component clamped at zero.
IssueRange(issue) ==
  Range(Max(0, issue.startLine),
        Max(0, getColumnFromOffset(issue.path, issue.startOffset)),
        Max(0, issue.endLine),
        Max(0, getColumnFromOffset(issue.path, issue.endOffset)))

\* level.toLowerCase()
ToLowerCase(level) ==
  CASE level = "Error" -> "error"
    [] level = "Warning" -> "warning"
    [] OTHER -> level

\* mapSeverity(level), for a level that is a string
mapSeverity(level) ==
  CASE ToLowerCase(level) = "error" -> "Error"
    [] ToLowerCase(level) = "warning" -> "Warning"
    [] ToLowerCase(level) = "note" -> "Information"
    [] ToLowerCase(level) = "help" -> "Hint"
    [] OTHER -> "Warning"

MakeDiagnostic(issue) ==
  [range |-> IssueRange(issue), message |-> issue.message,
   severity |-> mapSeverity(issue.level),
   source |-> "mago", code |-> DiagnosticCode(issue)]

\* The key under which updateDiagnostics stores an issue.
IssueKey(issue) ==
  issue.path \o ":" \o ToString(issue.startLine) \o ":"
    \o ToString(getColumnFromOffset(issue.path, issue.startOffset)) \o ":"
    \o DiagnosticCode(issue)

\* const diagnosticsMap = new Map(): it holds nothing of what is published.
NewDiagnosticsMap_seeded(collection) == collection

NewDiagnosticsMap(collection) == EmptyMap

\* issueMap.clear()
ClearIssueMap(index) == EmptyMap

\* diagnosticCollection.clear()
ClearCollection_keep(collection) == collection

ClearCollection(collection) == EmptyMap

\* Whether the loop body goes past its `continue`.
HasSpan_always(issue) == TRUE

HasSpan(issue) == issue.ann \in {"span", "nofileid"}

\* Whether the loop body throws a TypeError on the issue: at
\* annotation.span.file_id.path when the span has no file_id, at
\* level.toLowerCase() when the issue has no level.
ConversionThrows_never(issue) == FALSE

ConversionThrows(issue) ==
  HasSpan(issue) /\ (issue.ann = "nofileid" \/ issue.level = "undefined")

\* diagnosticsMap.get(filePath).push(diagnostic), after creating the entry.
PushDiagnostic(diagnosticsMap, filePath, diagnostic) ==
  MapSet(diagnosticsMap, filePath,
         IF filePath \in DOMAIN diagnosticsMap
         THEN Append(diagnosticsMap[filePath], diagnostic)
         ELSE <<diagnostic>>)

\* The loop over result.issues; it ends early when an issue makes it throw.
RECURSIVE ConvertIssues(_, _, _)
ConvertIssues(issues, diagnosticsMap, index) ==
  IF issues = <<>>
  THEN [diagnosticsMap |-> diagnosticsMap, index |-> index, thrown |-> FALSE]
  ELSE LET issue == Head(issues) IN
       IF ~HasSpan(issue)
       THEN ConvertIssues(Tail(issues), diagnosticsMap, index)
       ELSE IF ConversionThrows(issue)
       THEN [diagnosticsMap |-> diagnosticsMap, index |-> index, thrown |-> TRUE]
       ELSE ConvertIssues(Tail(issues),
                          PushDiagnostic(diagnosticsMap, issue.path, MakeDiagnostic(issue)),
                          MapSet(index, IssueKey(issue), issue))

\* for (const [filePath, diagnostics] of diagnosticsMap) diagnosticCollection.set(...)
SetAll(collection, diagnosticsMap) == diagnosticsMap @@ collection

\* The collection and the issue index that updateDiagnostics leaves, and
\* whether it threw: the collection is cleared and set after the loop only.
UpdateDiagnosticsResult(issues, collection, index) ==
  LET built == ConvertIssues(issues, NewDiagnosticsMap(collection), ClearIssueMap(index))
  IN [collection |-> IF built.thrown THEN collection
                     ELSE SetAll(ClearCollection(collection), built.diagnosticsMap),
      index |-> built.index,
      thrown |-> built.thrown]

(***************************************************************************)
(* runMago: what the child process wrote and how the close handler         *)
(* settles the promise.                                                    *)
(***************************************************************************)
ExitCodes == {0, 1, 2}

StderrTexts == {"", "fatal: config not found", "warning: deprecated"}

\* "" | whitespace only | text that is no JSON | {"issues":[...]} | {} | [] | null
\* | 5 | "x" | true
StdoutKinds ==
  {"empty", "blank", "text", "object", "objectNoIssues", "array", "null",
   "number", "string", "boolean"}

MkStdout(kind, issues) == [kind |-> kind, issues |-> issues]

\* stdout.trim() === ''
IsBlank_untrimmed(stdout) == stdout.kind = "empty"

IsBlank(stdout) == stdout.kind \in {"empty", "blank"}

NoIssues == <<>>

\* JSON.parse(stdout): the parsed value, or the SyntaxError it throws.
JSONParse(stdout) ==
  CASE stdout.kind \in {"empty", "blank"} ->
         [ok |-> FALSE, error |-> "SyntaxError: Unexpected end of JSON input",
          type |-> "none", hasIssues |-> FALSE, issues |-> NoIssues]
    [] stdout.kind = "text" ->
         [ok |-> FALSE, error |-> "SyntaxError: Unexpected token",
          type |-> "none", hasIssues |-> FALSE, issues |-> NoIssues]
    [] stdout.kind = "object" ->
         [ok |-> TRUE, error |-> "", type |-> "object",
          hasIssues |-> TRUE, issues |-> stdout.issues]
    [] stdout.kind = "objectNoIssues" ->
         [ok |-> TRUE, error |-> "", type |-> "object",
          hasIssues |-> FALSE, issues |-> NoIssues]
    [] OTHER ->
         [ok |-> TRUE, error |-> "", type |-> stdout.kind,
          hasIssues |-> FALSE, issues |-> NoIssues]

Resolve(type, hasIssues, issues) ==
  [settled |-> "resolve", message |-> "", type |-> type,
   hasIssues |-> hasIssues, issues |-> issues]

Reject(message) ==
  [settled |-> "reject", message |-> message, type |-> "none",
   hasIssues |-> FALSE, issues |-> NoIssues]

\* The branch taken when code !== 0 and stderr is not empty.
CloseWithStderr(code, stderr, stdout) ==
  LET parsed == JSONParse(stdout) IN
  IF parsed.ok /\ parsed.type # "null"
  THEN \* resolve(result): the parsed value as it is
       Resolve(parsed.type, parsed.hasIssues, parsed.issues)
  ELSE \* JSON.parse threw, or reading result.issues of null threw
       Reject(IF stderr # "" THEN stderr
              ELSE "Mago exited with code " \o ToString(code))

\* The branch taken otherwise.
CloseWithoutStderr(code, stderr, stdout) ==
  LET parsed == JSONParse(stdout) IN
  IF parsed.ok /\ parsed.type \in {"object", "array"}
  THEN \* if (!result.issues) result.issues = []
       Resolve(parsed.type, TRUE, parsed.issues)
  ELSE LET error ==
             IF ~parsed.ok THEN parsed.error
             ELSE IF parsed.type = "null"
                  THEN "TypeError: Cannot read properties of null"
                  ELSE "TypeError: Cannot create property 'issues' on " \o parsed.type
       IN IF IsBlank(stdout) /\ code = 0
          THEN Resolve("object", TRUE, NoIssues)
          ELSE Reject("Failed to parse Mago output: " \o error)

\* proc.on('close', (code) => ...)
CloseHandler(code, stderr, stdout) ==
  IF code # 0 /\ stderr # ""
  THEN CloseWithStderr(code, stderr, stdout)
  ELSE CloseWithoutStderr(code, stderr, stdout)

\* proc.on('error', (error) => ...)
ErrorHandler(errorMessage) == Reject("Failed to spawn Mago: " \o errorMessage)

\* What a caller appends to allIssues: `result && result.issues` guards the map.
ResultIssues(settlement) ==
  IF settlement.settled = "resolve" /\ settlement.hasIssues
  THEN settlement.issues
  ELSE NoIssues

(***************************************************************************)
(* Configuration values and argument vectors.  A string is a sequence of   *)
(* pieces: a literal piece, the blank piece " ", or one of the variable    *)
(* tokens that resolvePath replaces.  A flag written with its value in one *)
(* argument is the piece "--flag=" followed by the value.                  *)
(***************************************************************************)
WorkspaceVariables == {"${workspaceFolder}", "${workspaceRoot}"}

\* process.env: MAGO_HOME is set, UNSET is not
EnvVariables == {"${env:MAGO_HOME}", "${env:UNSET}"}

VariableTokens == WorkspaceVariables \cup EnvVariables

ProcessEnv(token) == IF token = "${env:MAGO_HOME}" THEN <<"/opt/mago">> ELSE <<>>

\* workspace.workspaceFolders[0].uri.fsPath
WorkspaceRoot == <<"/w">>

Lit(s) == <<s>>

RECURSIVE TrimStart(_)
TrimStart(text) ==
  IF text # <<>> /\ Head(text) = " " THEN TrimStart(Tail(text)) ELSE text

RECURSIVE TrimEnd(_)
TrimEnd(text) ==
  IF text # <<>> /\ text[Len(text)] = " "
  THEN TrimEnd(SubSeq(text, 1, Len(text) - 1)) ELSE text

\* String.prototype.trim
Trim(text) == TrimEnd(TrimStart(text))

\* a falsy string: '' (a setting that is not set reads as '' here)
Falsy(text) == text = <<>>

RECURSIVE resolvePath(_, _)
resolvePath(path, workspaceRoot) ==
  IF path = <<>> THEN <<>>
  ELSE LET piece == Head(path)
           resolved == IF piece \in WorkspaceVariables THEN workspaceRoot
                       ELSE IF piece \in EnvVariables THEN ProcessEnv(piece)
                       ELSE <<piece>>
       IN resolved \o resolvePath(Tail(path), workspaceRoot)

\* findMagoBinary: <workspaceRoot>/vendor/bin/mago when that file exists
findMagoBinary(workspaceRoot, vendorBinary) ==
  IF vendorBinary THEN workspaceRoot \o <<"/vendor/bin/mago">> ELSE <<>>

\* binCommand && binCommand.length > 0 && binCommand[0]
\* (a binCommand that is not set is the empty list here: every test of the
\* code treats the two alike)
HasBinCommand(binCommand) == Len(binCommand) > 0 /\ ~Falsy(binCommand[1])

\* The auto-discovery that precedes the construction of the command.
DiscoveredBinPath(cfg, workspaceRoot) ==
  IF /\ ~HasBinCommand(cfg.binCommand)
     /\ (Falsy(cfg.binPath) \/ Trim(cfg.binPath) = <<>> \/ Trim(cfg.binPath) = <<"mago">>)
     /\ ~Falsy(findMagoBinary(workspaceRoot, cfg.vendorBinary))
  THEN findMagoBinary(workspaceRoot, cfg.vendorBinary)
  ELSE cfg.binPath

MapResolve(tokens, workspaceRoot) ==
  [i \in 1..Len(tokens) |-> resolvePath(Trim(tokens[i]), workspaceRoot)]

\* binCommand.filter(cmd => cmd && cmd.trim()).map(cmd => resolvePath(cmd.trim(), root))
FilterCommand(binCommand, workspaceRoot) ==
  MapResolve(SelectSeq(binCommand, LAMBDA cmd : ~Falsy(cmd) /\ ~Falsy(Trim(cmd))),
             workspaceRoot)

CommandOk(command) == [ok |-> TRUE, command |-> command, message |-> ""]

CommandError(message) == [ok |-> FALSE, command |-> <<>>, message |-> message]

\* the check of command[0] made by every invoker before it spawns
FinalValidation_skipped(built, message) == built

FinalValidation(built, message) ==
  IF ~built.ok THEN built
  ELSE IF built.command = <<>> \/ Falsy(built.command[1]) \/ Falsy(Trim(built.command[1]))
       THEN CommandError(message)
       ELSE built

\* runMago: the command, or the configuration error thrown before any spawn
BuildCommandRunMago(cfg, workspaceRoot) ==
  LET binPath == DiscoveredBinPath(cfg, workspaceRoot)
      built ==
        IF HasBinCommand(cfg.binCommand)
        THEN LET command == FilterCommand(cfg.binCommand, workspaceRoot)
             IN IF Len(command) = 0
                THEN CommandError("mago.binCommand is set but contains no valid commands. Please check your settings.")
                ELSE CommandOk(command)
        ELSE LET path == IF Falsy(binPath) THEN <<"mago">> ELSE binPath
             IN IF Falsy(path) \/ Falsy(Trim(path))
                THEN CommandError("Mago binary path is not configured. Please set mago.binPath in settings.")
                ELSE CommandOk(<<resolvePath(Trim(path), workspaceRoot)>>)
  IN FinalValidation(built, "Invalid Mago executable: \"\". Please set mago.binPath in settings.")

\* generateBaseline, runFormatCommand, runFormatCommandStdin
BuildCommandOther(cfg, workspaceRoot) ==
  LET binPath == DiscoveredBinPath(cfg, workspaceRoot)
      built ==
        IF HasBinCommand(cfg.binCommand)
        THEN LET execCommand == FilterCommand(cfg.binCommand, workspaceRoot)
             IN IF Len(execCommand) = 0
                THEN CommandError("mago.binCommand is set but contains no valid commands.")
                ELSE CommandOk(execCommand)
        ELSE CommandOk(<<resolvePath(Trim(binPath), workspaceRoot)>>)
  IN FinalValidation(built, "Invalid Mago executable. Please set mago.binPath in settings.")

TopLevelFlags == {"--workspace", "--config", "--php-version", "--threads"}

SubcommandFlags == {"--minimum-report-level"}

Subcommands == {"lint", "analyze", "guard", "format"}

\* arg === flag || arg.startsWith(flag + '=')
IsFlag(arg, flag) == arg = <<flag>> \/ (arg # <<>> /\ arg[1] = flag \o "=")

\* args.some(arg => arg === flag || arg.startsWith(flag + '='))
Supplied(args, flag) == \E i \in 1..Len(args) : IsFlag(args[i], flag)

\* threads.toString()
ThreadsText(threads) == <<ToString(threads)>>

\* runMago: the top-level options, each left out when the caller's args hold it
TopLevelArgsRunMago(cfg, args, workspaceRoot) ==
  (IF ~Supplied(args, "--workspace")
   THEN <<Lit("--workspace"), workspaceRoot>> ELSE <<>>)
  \o (IF ~Falsy(cfg.configFile) /\ ~Supplied(args, "--config")
      THEN <<Lit("--config"), cfg.configFile>> ELSE <<>>)
  \o (IF ~Falsy(cfg.phpVersion) /\ ~Supplied(args, "--php-version")
      THEN <<Lit("--php-version"), cfg.phpVersion>> ELSE <<>>)
  \o (IF cfg.threads # 0 /\ ~Supplied(args, "--threads")
      THEN <<Lit("--threads"), ThreadsText(cfg.threads)>> ELSE <<>>)

\* generateBaseline, runFormatCommand, runFormatCommandStdin: the top-level options
TopLevelArgsOther(cfg, workspaceRoot) ==
  <<Lit("--workspace"), workspaceRoot>>
  \o (IF ~Falsy(cfg.configFile) THEN <<Lit("--config"), cfg.configFile>> ELSE <<>>)
  \o (IF ~Falsy(cfg.phpVersion) THEN <<Lit("--php-version"), cfg.phpVersion>> ELSE <<>>)
  \o (IF cfg.threads # 0 THEN <<Lit("--threads"), ThreadsText(cfg.threads)>> ELSE <<>>)

\* runMago: args after the push of --minimum-report-level
WithMinimumReportLevel_unchecked(cfg, args) ==
  IF ~Falsy(cfg.minimumReportLevel)
  THEN args \o <<Lit("--minimum-report-level"), cfg.minimumReportLevel>>
  ELSE args

WithMinimumReportLevel(cfg, args) ==
  IF ~Falsy(cfg.minimumReportLevel) /\ ~Supplied(args, "--minimum-report-level")
  THEN args \o <<Lit("--minimum-report-level"), cfg.minimumReportLevel>>
  ELSE args

\* What an invoker did: it spawned executable with fullArgs, or it threw message.
\* prefix, topLevelArgs and subcommandArgs are the three parts of fullArgs.
Spawned_optionsLast(invoker, command, topLevelArgs, subcommandArgs) ==
  [invoker |-> invoker, outcome |-> "spawn", executable |-> command[1],
   prefix |-> Tail(command), topLevelArgs |-> topLevelArgs,
   subcommandArgs |-> subcommandArgs,
   fullArgs |-> Tail(command) \o subcommandArgs \o topLevelArgs,
   message |-> ""]

Spawned(invoker, command, topLevelArgs, subcommandArgs) ==
  [invoker |-> invoker, outcome |-> "spawn", executable |-> command[1],
   prefix |-> Tail(command), topLevelArgs |-> topLevelArgs,
   subcommandArgs |-> subcommandArgs,
   fullArgs |-> Tail(command) \o topLevelArgs \o subcommandArgs,
   message |-> ""]

Thrown(invoker, message) ==
  [invoker |-> invoker, outcome |-> "error", executable |-> <<>>,
   prefix |-> <<>>, topLevelArgs |-> <<>>, subcommandArgs |-> <<>>,
   fullArgs |-> <<>>, message |-> message]

\* runMago(args) up to its spawn
RunMagoSpawn(cfg, args, workspaceRoot) ==
  LET built == BuildCommandRunMago(cfg, workspaceRoot)
  IN IF ~built.ok THEN Thrown("runMago", built.message)
     ELSE Spawned("runMago", built.command,
                  TopLevelArgsRunMago(cfg, args, workspaceRoot),
                  WithMinimumReportLevel(cfg, args))

\* the baseline setting and the subcommand of generateBaseline(type)
BaselineSetting(cfg, type) ==
  IF type = "lint" THEN cfg.lintBaseline
  ELSE IF type = "analyze" THEN cfg.analysisBaseline
  ELSE cfg.guardBaseline

\* generateBaseline(type) up to its spawn
GenerateBaselineSpawn(cfg, type, workspaceRoot) ==
  LET built == BuildCommandOther(cfg, workspaceRoot)
      baselinePath == resolvePath(BaselineSetting(cfg, type), workspaceRoot)
  IN IF ~built.ok THEN Thrown("generateBaseline", built.message)
     ELSE Spawned("generateBaseline", built.command,
                  TopLevelArgsOther(cfg, workspaceRoot),
                  <<Lit(type), Lit("--generate-baseline"), Lit("--baseline"), baselinePath>>)

\* runFormatCommand(paths, workspaceRoot) up to its spawn
RunFormatCommandSpawn(cfg, paths, workspaceRoot) ==
  LET built == BuildCommandOther(cfg, workspaceRoot)
  IN IF ~built.ok THEN Thrown("runFormatCommand", built.message)
     ELSE Spawned("runFormatCommand", built.command,
                  TopLevelArgsOther(cfg, workspaceRoot),
                  <<Lit("format")>> \o paths)

\* runFormatCommandStdin(input, workspaceRoot) up to its spawn
RunFormatCommandStdinSpawn(cfg, workspaceRoot) ==
  LET built == BuildCommandOther(cfg, workspaceRoot)
  IN IF ~built.ok THEN Thrown("runFormatCommandStdin", built.message)
     ELSE Spawned("runFormatCommandStdin", built.command,
                  TopLevelArgsOther(cfg, workspaceRoot),
                  <<Lit("format"), Lit("--stdin-input")>>)

\* scanFile / scanProject: the args handed to runMago for one category;
\* document is the scanned file's path, or <<>> for a project scan
ScanArgs(cfg, type, document, workspaceRoot) ==
  <<Lit(type), Lit("--reporting-format"), Lit("json")>>
  \o (IF cfg.useBaselines
      THEN <<Lit("--baseline"), resolvePath(BaselineSetting(cfg, type), workspaceRoot)>>
      ELSE <<>>)
  \o (IF document # <<>> THEN <<document>> ELSE <<>>)

\* lintFix(safetyLevel): the args handed to runMago
LintFixArgs(cfg, safetyLevel, workspaceRoot) ==
  <<Lit("lint"), Lit("--fix")>>
  \o (IF safetyLevel = "unsafe" THEN <<Lit("--unsafe")>>
      ELSE IF safetyLevel = "potentially-unsafe" THEN <<Lit("--potentially-unsafe")>>
      ELSE <<>>)
  \o (IF cfg.formatAfterLintFix THEN <<Lit("--format-after-fix")>> ELSE <<>>)
  \o (IF cfg.useBaselines
      THEN <<Lit("--baseline"), resolvePath(cfg.lintBaseline, workspaceRoot)>>
      ELSE <<>>)

(***************************************************************************)
(* The key the code-action provider builds for a diagnostic of a document. *)
(***************************************************************************)
ProviderKey(filePath, diagnostic) ==
  filePath \o ":" \o ToString(diagnostic.range.startLine) \o ":"
    \o ToString(diagnostic.range.startCharacter) \o ":" \o diagnostic.code

(***************************************************************************)
(* MagoCodeActionProvider.provideCodeActions and the commands its actions  *)
(* run.  A document is its path, languageId and uri scheme; its text is a  *)
(* list of lines, each an indentation and the rest of the line.            *)
(***************************************************************************)
MkDocument(path, languageId, scheme) ==
  [path |-> path, languageId |-> languageId, scheme |-> scheme]

MkLine(indentation, text) == [indentation |-> indentation, text |-> text]

\* document.lineAt: the text of the open documents
DocumentLines(path) ==
  IF path = "a.php"
  THEN << MkLine("", "ab"), MkLine("", "cd") >>
  ELSE << MkLine("", "}"), MkLine("  ", "g();") >>

\* range.isEmpty
IsEmptyRange(range) ==
  range.startLine = range.endLine /\ range.startCharacter = range.endCharacter

\* window.activeTextEditor: none ("" as path), or an editor on a document with a selection
MkEditor(path, selection) == [path |-> path, selection |-> selection]

NoEditor == MkEditor("", Range(0, 0, 0, 0))

\* The selection the provider works with: the requested range when it is not
\* empty, else the selection of the active editor when that editor shows the
\* document and its selection is not empty, else none.
HasSelection_rangeOnly(document, range, editor) == ~IsEmptyRange(range)

HasSelection(document, range, editor) ==
  \/ ~IsEmptyRange(range)
  \/ /\ editor.path = document.path
     /\ ~IsEmptyRange(editor.selection)

SelectedRange(document, range, editor) ==
  IF ~IsEmptyRange(range) THEN range
  ELSE IF editor.path = document.path /\ ~IsEmptyRange(editor.selection)
       THEN editor.selection
       ELSE range

NoDiagnostic ==
  [range |-> Range(0, 0, 0, 0), message |-> "", source |-> "", code |-> ""]

\* One code action: its kind of command, its title, the diagnostic it is for,
\* and the arguments of its command (issue, line and suppressionCode as far as
\* the command takes them).
MkAction(command, title, diagnostic, range, issue, line, suppressionCode) ==
  [command |-> command, title |-> title, diagnostic |-> diagnostic, range |-> range,
   issue |-> issue, line |-> line, suppressionCode |-> suppressionCode]

NoIssue == Tag(MkIssue("", "", "none", "", 0, 0, 0, 0, FALSE), "")

FormatIgnoreCommands ==
  {"mago.addFormatIgnoreNext", "mago.addFormatIgnoreRegion", "mago.addFormatIgnoreFile"}

FormatIgnoreActions(document, range, editor) ==
  IF /\ HasSelection(document, range, editor)
     /\ document.languageId = "php"
     /\ document.scheme = "file"
  THEN LET selected == SelectedRange(document, range, editor)
       IN << MkAction("mago.addFormatIgnoreNext", "Add @mago-format-ignore-next",
                      NoDiagnostic, selected, NoIssue, 0, ""),
             MkAction("mago.addFormatIgnoreRegion", "Add @mago-format-ignore-start/end",
                      NoDiagnostic, selected, NoIssue, 0, ""),
             MkAction("mago.addFormatIgnoreFile", "Add @mago-format-ignore (file-level)",
                      NoDiagnostic, Range(0, 0, 0, 0), NoIssue, 0, "") >>
  ELSE <<>>

\* issue.edits && issue.edits.length > 0
HasEdits_always(issue) == TRUE

HasEdits(issue) == issue.edits

\* const category = issue.category || 'lint'
SuppressionCode(issue) ==
  (IF issue.category = "" THEN "lint" ELSE issue.category) \o ":" \o issue.code

\* The actions the provider adds for one diagnostic of the request.
DiagnosticActions(document, diagnostic, index) ==
  IF diagnostic.source # "mago" \/ diagnostic.code = "" THEN <<>>
  ELSE LET issueKey == ProviderKey(document.path, diagnostic)
       IN IF issueKey \notin DOMAIN index THEN <<>>
          ELSE LET issue == index[issueKey]
               IN (IF HasEdits(issue)
                   THEN << MkAction("mago.applyFix", "Apply fix: " \o diagnostic.message,
                                    diagnostic, diagnostic.range, issue, 0, "") >>
                   ELSE <<>>)
                  \o << MkAction("mago.addSuppression",
                                 "Suppress with @mago-expect " \o SuppressionCode(issue),
                                 diagnostic, diagnostic.range, NoIssue,
                                 diagnostic.range.endLine, SuppressionCode(issue)) >>

RECURSIVE AllDiagnosticActions(_, _, _)
AllDiagnosticActions(document, diagnostics, index) ==
  IF diagnostics = <<>> THEN <<>>
  ELSE DiagnosticActions(document, Head(diagnostics), index)
         \o AllDiagnosticActions(document, Tail(diagnostics), index)

\* provideCodeActions; the empty list stands for the undefined it returns
\* when it has no action
provideCodeActions(document, range, editor, diagnostics, index) ==
  FormatIgnoreActions(document, range, editor)
    \o AllDiagnosticActions(document, diagnostics, index)

\* prevLineTrimmed is made of closing brackets and separators only
ClosingOnly(text) == text \in {"}", "};", "],", ");", "})", "]"}

\* addSuppression(document, line, 'expect', suppressionCode): the insertion it
\* applies, or none when document.lineAt throws
NoEdit ==
  [applied |-> FALSE, line |-> 0, character |-> 0, text |-> "", comment |-> "",
   action |-> 0]

AddSuppressionEdit(path, line, suppressionCode) ==
  LET lines == DocumentLines(path)
      comment == "// @mago-expect " \o suppressionCode
  IN IF line < 0 \/ line >= Len(lines) THEN NoEdit
     ELSE LET indentation == lines[line + 1].indentation
              prevLineNum == Max(0, line - 1)
              prev == lines[prevLineNum + 1]
          IN IF ClosingOnly(prev.text)
             THEN [applied |-> TRUE, line |-> prevLineNum,
                   character |-> Len(prev.indentation) + Len(prev.text),
                   text |-> NL \o indentation \o comment, comment |-> comment,
                   action |-> 0]
             ELSE [applied |-> TRUE, line |-> line, character |-> 0,
                   text |-> indentation \o comment \o NL, comment |-> comment,
                   action |-> 0]

(***************************************************************************)
(* The comment commands (addSuppression, addFormatIgnoreFile,              *)
(* addFormatIgnoreNext, addFormatIgnoreRegion) on the text of an open      *)
(* document.  The text is a list of lines and a line a list of pieces: a   *)
(* blank " ", or a token of the file.  An insertion is a position and a    *)
(* list of pieces in which NL ends a line.                                 *)
(***************************************************************************)
\* /^\s*/ on a line: its leading blanks
RECURSIVE Indentation(_)
Indentation(lineText) ==
  IF lineText # <<>> /\ Head(lineText) = " "
  THEN <<" ">> \o Indentation(Tail(lineText))
  ELSE <<>>

\* text.length of a line
RECURSIVE TextLength(_)
TextLength(lineText) ==
  IF lineText = <<>> THEN 0 ELSE Len(Head(lineText)) + TextLength(Tail(lineText))

\* document.getText(): the lines joined by line feeds
RECURSIVE GetText(_)
GetText(lines) ==
  IF lines = <<>> THEN <<>>
  ELSE IF Len(lines) = 1 THEN lines[1]
  ELSE lines[1] \o <<NL>> \o GetText(Tail(lines))

\* the lines of a text: split at the line feeds
RECURSIVE SplitLines(_)
SplitLines(content) ==
  LET nls == { i \in 1..Len(content) : content[i] = NL }
  IN IF nls = {} THEN << content >>
     ELSE LET first == CHOOSE i \in nls : \A j \in nls : i <= j
          IN << SubSeq(content, 1, first - 1) >>
               \o SplitLines(SubSeq(content, first + 1, Len(content)))

\* content.trim(): without the blanks and line feeds at its start (those at its
\* end play no part in startsWith)
RECURSIVE TrimContentStart(_)
TrimContentStart(content) ==
  IF content # <<>> /\ Head(content) \in {" ", NL}
  THEN TrimContentStart(Tail(content))
  ELSE content

OpeningTag == "<?php"

\* content.trim().startsWith('<?php')
StartsWithOpeningTag(content) ==
  LET trimmed == TrimContentStart(content)
  IN trimmed # <<>> /\ Head(trimmed) = OpeningTag

FormatIgnoreMarker == "// @mago-format-ignore"

FormatIgnoreNextMarker == "// @mago-format-ignore-next"

FormatIgnoreStartMarker == "// @mago-format-ignore-start"

FormatIgnoreEndMarker == "// @mago-format-ignore-end"

\* the pieces that include '@mago-format-ignore' or '@mago-formatter-ignore'
IgnoreMarkers ==
  { FormatIgnoreMarker, FormatIgnoreNextMarker, FormatIgnoreStartMarker,
    FormatIgnoreEndMarker, "// @mago-formatter-ignore" }

\* content.includes('@mago-format-ignore') || content.includes('@mago-formatter-ignore')
HasIgnoreMarker(content) ==
  \E i \in 1..Len(content) : content[i] \in IgnoreMarkers

\* prevLineTrimmed is '}', '};', '],', ');' or matches /^[}\]\);,]+$/
IsClosingLine_never(lineText) == FALSE

IsClosingLine(lineText) ==
  LET prevLineTrimmed == Trim(lineText)
  IN /\ prevLineTrimmed # <<>>
     /\ \A i \in 1..Len(prevLineTrimmed) : ClosingOnly(prevLineTrimmed[i])

\* edit.insert(document.uri, new Position(line, character), text)
MkInsert(line, character, text) ==
  [line |-> line, character |-> character, text |-> text]

\* what a command did: the insertions it handed to workspace.applyEdit and the
\* kind of message it showed
MkCommandResult(inserts, message) == [inserts |-> inserts, message |-> message]

\* document.lineAt(line) throws unless 0 <= line < lineCount
LineAtThrows(lines, line) == line < 0 \/ line >= Len(lines)

\* the message after workspace.applyEdit
AppliedMessage(applied) == IF applied THEN "information" ELSE "warning"

\* addSuppression(document, line, 'expect', suppressionCode)
addSuppression(lines, line, suppressionCode, applied) ==
  IF LineAtThrows(lines, line) THEN MkCommandResult(<<>>, "error")
  ELSE LET indentation == Indentation(lines[line + 1])
           prevLineNum == Max(0, line - 1)
           prevLineText == lines[prevLineNum + 1]
           comment == "// @mago-expect " \o suppressionCode
       IN IF IsClosingLine(prevLineText)
          THEN MkCommandResult(
                 << MkInsert(prevLineNum, TextLength(prevLineText),
                             <<NL>> \o indentation \o <<comment>>) >>,
                 AppliedMessage(applied))
          ELSE MkCommandResult(
                 << MkInsert(line, 0, indentation \o <<comment, NL>>) >>,
                 AppliedMessage(applied))

\* the line addFormatIgnoreFile inserts at
InsertLine(lines) ==
  IF StartsWithOpeningTag(GetText(lines))
  THEN IF OpeningTag \in { lines[1][i] : i \in 1..Len(lines[1]) } THEN 1 ELSE 0
  ELSE 0

\* addFormatIgnoreFile(document)
addFormatIgnoreFile(lines, applied) ==
  IF HasIgnoreMarker(GetText(lines)) THEN MkCommandResult(<<>>, "warning")
  ELSE MkCommandResult(
         << MkInsert(InsertLine(lines), 0, <<FormatIgnoreMarker, NL>>) >>,
         AppliedMessage(applied))

\* addFormatIgnoreNext(document, range)
addFormatIgnoreNext(lines, range, applied) ==
  IF LineAtThrows(lines, range.startLine) THEN MkCommandResult(<<>>, "error")
  ELSE LET insertLine == Max(0, range.startLine - 1)
           indentation == Indentation(lines[range.startLine + 1])
       IN MkCommandResult(
            << MkInsert(insertLine, 0,
                        indentation \o <<FormatIgnoreNextMarker, NL>>) >>,
            AppliedMessage(applied))

\* the line whose leading whitespace the start marker of a region takes, and the
\* one for its end marker
StartIndentationLine_above(range) == Max(0, range.startLine - 1)

StartIndentationLine(range) == range.startLine

EndIndentationLine(range) == range.endLine

\* addFormatIgnoreRegion(document, range)
addFormatIgnoreRegion(lines, range, applied) ==
  IF \/ LineAtThrows(lines, StartIndentationLine(range))
     \/ LineAtThrows(lines, EndIndentationLine(range))
  THEN MkCommandResult(<<>>, "error")
  ELSE LET startIndentation == Indentation(lines[StartIndentationLine(range) + 1])
           endIndentation == Indentation(lines[EndIndentationLine(range) + 1])
           startLine == Max(0, range.startLine - 1)
           endLine == range.endLine + 1
       IN MkCommandResult(
            << MkInsert(startLine, 0,
                        startIndentation \o <<FormatIgnoreStartMarker, NL>>),
               MkInsert(endLine, 0,
                        endIndentation \o <<FormatIgnoreEndMarker, NL>>) >>,
            AppliedMessage(applied))

\* The piece of a line at which a character position falls; a position beyond
\* the end of the line is the end of the line.
RECURSIVE PieceIndex(_, _)
PieceIndex(lineText, character) ==
  IF lineText = <<>> \/ character < Len(Head(lineText)) THEN 0
  ELSE 1 + PieceIndex(Tail(lineText), character - Len(Head(lineText)))

\* The place of a position in document.getText(); the editor takes a position
\* below the last line as the end of the document.
RECURSIVE OffsetAt(_, _, _)
OffsetAt(lines, line, character) ==
  IF line >= Len(lines) THEN Len(GetText(lines))
  ELSE IF line <= 0 THEN PieceIndex(lines[1], character)
  ELSE Len(lines[1]) + 1 + OffsetAt(Tail(lines), line - 1, character)

InsertAt(content, offset, text) ==
  SubSeq(content, 1, offset) \o text \o SubSeq(content, offset + 1, Len(content))

\* insertions at their places in the text, the one furthest down first; of two
\* at one place the one handed over first comes first in the result
RECURSIVE InsertAll(_, _)
InsertAll(content, placed) ==
  IF placed = <<>> THEN content
  ELSE LET last == CHOOSE i \in 1..Len(placed) :
                     \A j \in 1..Len(placed) :
                       \/ placed[j].offset < placed[i].offset
                       \/ (placed[j].offset = placed[i].offset /\ j <= i)
           rest == [ k \in 1..(Len(placed) - 1) |->
                       IF k < last THEN placed[k] ELSE placed[k + 1] ]
       IN InsertAll(InsertAt(content, placed[last].offset, placed[last].text), rest)

\* workspace.applyEdit(edit): every insertion is made at its position in the
\* text as it was before the edit
ApplyInserts(lines, inserts) ==
  SplitLines(
    InsertAll(GetText(lines),
              [ i \in 1..Len(inserts) |->
                  [offset |-> OffsetAt(lines, inserts[i].line, inserts[i].character),
                   text |-> inserts[i].text] ]))

(***************************************************************************)
(* State.                                                                  *)
(***************************************************************************)
VARIABLES
  diagnosticCollection,  \* published diagnostics: file path -> sequence of diagnostics
  issueMap,              \* the issue index: key -> issue
  statusBar,             \* "idle" or "running"
  enabled,               \* mago.enableLint / enableAnalyze / enableGuard
  pc,                    \* "idle", or the category whose child process the scan awaits
  allIssues,             \* the scan's allIssues
  outcome,               \* per category, how its invocation settled in the latest scan
  phase,                 \* "none", "running" or "done": the latest scan
  published,             \* the latest finished scan called updateDiagnostics
  fatalShown,            \* the latest finished scan ended in its outer catch
  preCategories,         \* the categories that had diagnostics published when the latest scan finished
  lastInput,             \* the list given to the latest updateDiagnostics, until Clear Errors runs
  sameInput,             \* the latest updateDiagnostics got the list of the call before it
  run,                   \* one runMago call: the child's exit code, stderr, stdout and the event that ended it
  settlement,            \* how the promise of that call settled
  previous,              \* the call before it: its run and its settlement
  config,                \* the mago.* settings and whether vendor/bin/mago exists
  caller,                \* the function that made the latest invoker call
  callerArgs,            \* the args it handed to runMago
  paths,                 \* the positional path arguments of that call
  invocation,            \* what the invoker did: the spawn, or the error thrown before it
  request,               \* the code-action request being served: document, range, editor, diagnostics
  actions,               \* the actions provideCodeActions returned for it
  lastEdit,              \* the insertion applied by the suppress action run for it
  openText,              \* the lines of the document the comment commands work on
  textBefore,            \* its lines before the latest command
  editCommand,           \* the latest command: its name, line or range, and whether its edit applied
  editResult,            \* the insertions that command made and the message it showed
  editCount,             \* the commands run on the document since it was opened
  fileText,              \* the characters of the file that getColumnFromOffset reads
  byteOffset,            \* the byte offset it was last given for that file, -1 before
  column,                \* the column it returned
  saveSettings,          \* mago.runOnSave (as read by activate), runOnSaveScope, runGuardOnSave
  trigger,               \* what started the latest scan: "none", "save" or "command"
  childHung,             \* the child process the scan awaits will never exit
  tasks,                 \* the operations in flight: per slot, the operation suspended at an await of runMago
  runningProcess,        \* the slot whose child the variable runningProcess refers to, 0 for undefined
  deactivated,           \* deactivate has run
  timers,                \* the re-scan timers lintFix has set that have not fired
  rescans,               \* the calls of scanProject made by those timers
  started,               \* the operations begun since activation
  fixed,                 \* the lintFix calls whose invocation resolved with at least one issue
  lastPublisher,         \* the place in the order of starts of the scan whose updateDiagnostics returned last, 0 before
  overtaken,             \* that scan was started before one whose updateDiagnostics had returned already
  documentText,          \* the text of the document formatDocument works on
  formatInput,           \* the text it wrote to the formatter's stdin, while it awaits the formatter
  formatResult,          \* how the latest formatDocument ended
  serverDiagnostics,     \* ErrorManager.diagnostics: uri -> diagnostics
  sentDiagnostics,       \* per uri, the diagnostics of the latest sendDiagnostics
  lastUpdate             \* the latest update given to handleDiagnosticsUpdate: its type and result.files

scanVars ==
  <<diagnosticCollection, issueMap, statusBar, enabled, pc, allIssues, outcome,
    phase, published, fatalShown, preCategories, lastInput, sameInput>>

runVars == <<run, settlement, previous>>

argVars == <<config, caller, callerArgs, paths, invocation>>

providerVars == <<request, actions, lastEdit>>

editVars == <<openText, textBefore, editCommand, editResult, editCount>>

mapperVars == <<fileText, byteOffset, column>>

saveVars == <<saveSettings, trigger, childHung>>

hostVars ==
  <<tasks, runningProcess, deactivated, timers, rescans, started, fixed,
    lastPublisher, overtaken>>

formatVars == <<documentText, formatInput, formatResult>>

serverVars == <<serverDiagnostics, sentDiagnostics, lastUpdate>>

\* the state of the concurrent host, of formatDocument and of the server
restVars == <<hostVars, formatVars, serverVars>>

\* the state of the parts that the scan and runMago leave alone
toolVars == <<argVars, providerVars, editVars, mapperVars, saveVars, restVars>>

vars == <<scanVars, runVars, toolVars>>

NotRun == [settled |-> "none", issues |-> NoIssues, exit2 |-> "no"]

\* The record kept of one invocation of a scan: how it settled, the issues it
\* handed to the scan and, when the child exited with code 2, text on stderr and
\* nothing on stdout, whether the promise rejected with that text as its message
\* ("stderr") or settled in another way ("other").
Outcome(settlement_, code, stderr, stdout) ==
  [settled |-> settlement_.settled,
   issues |-> ResultIssues(settlement_),
   exit2 |-> IF code = 2 /\ stderr # "" /\ stdout.kind = "empty"
             THEN IF settlement_.settled = "reject" /\ settlement_.message = stderr
                  THEN "stderr" ELSE "other"
             ELSE "no"]

\* The category a published diagnostic belongs to, read off its composite code.
DiagnosticsOf(collection, cat) ==
  UNION { { <<f, i>> : i \in { j \in 1..Len(collection[f]) :
                                 \E k \in IssueCodes :
                                   collection[f][j].code = CategoryPrefix(cat) \o ":" \o k } } :
          f \in DOMAIN collection }

PublishedCategories(collection) ==
  { c \in CategorySet : DiagnosticsOf(collection, c) # {} }

Pending ==
  [settled |-> "pending", message |-> "", type |-> "none",
   hasIssues |-> FALSE, issues |-> NoIssues]

MkRun(code, stderr, stdout, event) ==
  [code |-> code, stderr |-> stderr, stdout |-> stdout, event |-> event]

NoRun == MkRun(0, "", MkStdout("empty", NoIssues), "none")

NoPrevious == [run |-> NoRun, settlement |-> Pending]

\* the settings at the defaults that config.get is given
DefaultConfig ==
  [binPath |-> <<"mago">>, binCommand |-> <<>>, configFile |-> <<>>,
   phpVersion |-> <<>>, threads |-> 0, minimumReportLevel |-> <<"error">>,
   useBaselines |-> FALSE, lintBaseline |-> <<"lint-baseline.toml">>,
   analysisBaseline |-> <<"analysis-baseline.toml">>,
   guardBaseline |-> <<"guard-baseline.toml">>,
   formatAfterLintFix |-> FALSE, vendorBinary |-> FALSE]

NoInvocation == Thrown("none", "")

NoRequest ==
  [document |-> MkDocument("", "", ""), range |-> Range(0, 0, 0, 0),
   editor |-> NoEditor, diagnostics |-> <<>>]

\* no code-action request is being served
ProviderInit ==
  /\ request = NoRequest
  /\ actions = <<>>
  /\ lastEdit = NoEdit

\* no document is being edited by a comment command
EditInit ==
  /\ openText = << <<>> >>
  /\ textBefore = << <<>> >>
  /\ editCommand = [name |-> "none", line |-> 0, range |-> Range(0, 0, 0, 0),
                    applied |-> FALSE]
  /\ editResult = MkCommandResult(<<>>, "none")
  /\ editCount = 0

\* the settings of the save listener at their defaults, and no scan started
DefaultSaveSettings ==
  [runOnSave |-> TRUE, runOnSaveScope |-> "project", runGuardOnSave |-> FALSE]

SaveInit ==
  /\ saveSettings = DefaultSaveSettings
  /\ trigger = "none"
  /\ childHung = FALSE

\* an operation in flight, and a free slot
MkTask(kind, target, awaited, issues, order, killed) ==
  [kind |-> kind, target |-> target, pc |-> awaited, issues |-> issues,
   order |-> order, killed |-> killed]

NoTask == MkTask("none", "", "idle", <<>>, 0, FALSE)

\* nothing is in flight and the extension is active
HostInit ==
  /\ tasks = [t \in 1..MaxTasks |-> NoTask]
  /\ runningProcess = 0
  /\ deactivated = FALSE
  /\ timers = 0
  /\ rescans = 0
  /\ started = 0
  /\ fixed = 0
  /\ lastPublisher = 0
  /\ overtaken = FALSE

\* no document is being formatted
FormatInit ==
  /\ documentText = <<>>
  /\ formatInput = <<"none">>
  /\ formatResult = "none"

NoUpdate == [type |-> "none", files |-> EmptyMap]

\* the server's ErrorManager as constructed
ServerInit ==
  /\ serverDiagnostics = EmptyMap
  /\ sentDiagnostics = EmptyMap
  /\ lastUpdate = NoUpdate

RestInit ==
  /\ HostInit
  /\ FormatInit
  /\ ServerInit

\* getColumnFromOffset has not been called
MapperInit ==
  /\ fileText = <<>>
  /\ byteOffset = -1
  /\ column = 0

\* no invoker has been called
ArgsInit ==
  /\ config = DefaultConfig
  /\ caller = "none"
  /\ callerArgs = <<>>
  /\ paths = <<>>
  /\ invocation = NoInvocation

ScanInit ==
  /\ diagnosticCollection = EmptyMap
  /\ issueMap = EmptyMap
  /\ statusBar = "idle"
  /\ pc = "idle"
  /\ allIssues = <<>>
  /\ outcome = [c \in CategorySet |-> NotRun]
  /\ phase = "none"
  /\ published = FALSE
  /\ fatalShown = FALSE
  /\ preCategories = {}
  /\ lastInput = [valid |-> FALSE, issues |-> <<>>]
  /\ sameInput = FALSE

Init ==
  /\ ScanInit
  /\ enabled \in [CategorySet -> BOOLEAN]
  /\ run = NoRun
  /\ settlement = Pending
  /\ previous = NoPrevious
  /\ ArgsInit
  /\ ProviderInit
  /\ EditInit
  /\ MapperInit
  /\ SaveInit
  /\ RestInit

(***************************************************************************)
(* scanFile / scanProject.  Both run the enabled categories in the order   *)
(* lint, analyze, guard, each in its own try/catch, awaiting one child     *)
(* process at a time, and then publish the merged list.                    *)
(***************************************************************************)
\* The first enabled category at or after position i of Categories, or "end".
RECURSIVE FirstEnabledFrom(_)
FirstEnabledFrom(i) ==
  IF i > Len(Categories) THEN "end"
  ELSE IF enabled[Categories[i]] THEN Categories[i]
  ELSE FirstEnabledFrom(i + 1)

Position(cat) == CHOOSE i \in 1..Len(Categories) : Categories[i] = cat

\* Where the scan goes once the invocation of cat has resolved.
AfterResolve(cat) == FirstEnabledFrom(Position(cat) + 1)

\* Where the scan goes once the invocation of cat has rejected: the inner catch
\* logs a warning and the scan goes on with the next category.
AfterReject_propagates(cat) == "abort"

AfterReject(cat) == FirstEnabledFrom(Position(cat) + 1)

\* if (enableLint || enableAnalyze || enableGuard)
AnyEnabled == \E c \in CategorySet : enabled[c]

\* The scan goes on to `target`: the next spawn, the publication, or the outer catch.
Proceed(target, issues) ==
  /\ allIssues' = issues
  /\ IF target \in CategorySet
     THEN /\ pc' = target
          /\ phase' = "running"
          /\ statusBar' = "running"
          /\ published' = FALSE
          /\ fatalShown' = FALSE
          /\ sameInput' = FALSE
          /\ preCategories' = {}
          /\ UNCHANGED <<diagnosticCollection, issueMap, lastInput>>
     ELSE /\ pc' = "idle"
          /\ phase' = "done"
          /\ statusBar' = "idle"
          /\ preCategories' = PublishedCategories(diagnosticCollection)
          /\ IF target = "end" /\ AnyEnabled
             THEN LET r == UpdateDiagnosticsResult(issues, diagnosticCollection, issueMap)
                  IN /\ diagnosticCollection' = r.collection
                     /\ issueMap' = r.index
                     /\ published' = TRUE
                     /\ fatalShown' = FALSE
                     /\ lastInput' = [valid |-> TRUE, issues |-> issues]
                     /\ sameInput' = (lastInput.valid /\ lastInput.issues = issues)
             ELSE /\ published' = FALSE
                  /\ fatalShown' = (target = "abort")
                  /\ sameInput' = FALSE
                  /\ UNCHANGED <<diagnosticCollection, issueMap, lastInput>>

\* the body of scanFile / scanProject up to its first await
BeginScan ==
  /\ pc = "idle"
  /\ outcome' = [c \in CategorySet |-> NotRun]
  /\ Proceed(FirstEnabledFrom(1), <<>>)

StartScan ==
  /\ BeginScan
  /\ UNCHANGED <<enabled, runVars, toolVars>>

\* scanFile(document), for a document whose path ends in .php
ScanFile(document) == StartScan

\* scanProject(), with a workspace folder open
ScanProject == StartScan

\* The awaited child closes: the close handler settles the promise and the scan goes on.
ProcClose(code, stderr, stdout) ==
  /\ pc \in CategorySet
  /\ LET s == CloseHandler(code, stderr, stdout)
         issues == allIssues \o TagAll(ResultIssues(s), pc)
     IN /\ outcome' = [outcome EXCEPT ![pc] = Outcome(s, code, stderr, stdout)]
        /\ Proceed(IF s.settled = "resolve" THEN AfterResolve(pc) ELSE AfterReject(pc),
                   issues)
  /\ UNCHANGED <<enabled, runVars, toolVars>>

\* The awaited child cannot be spawned: the error handler rejects the promise.
ProcError ==
  /\ pc \in CategorySet
  /\ LET s == ErrorHandler("spawn mago ENOENT")
     IN /\ outcome' = [outcome EXCEPT ![pc] = Outcome(s, 0, "", MkStdout("empty", NoIssues))]
        /\ Proceed(AfterReject(pc), allIssues)
  /\ UNCHANGED <<enabled, runVars, toolVars>>

\* The Clear Errors command.
ClearErrors ==
  /\ diagnosticCollection' = ClearCollection(diagnosticCollection)
  /\ statusBar' = "idle"
  /\ lastInput' = [valid |-> FALSE, issues |-> <<>>]
  /\ UNCHANGED <<issueMap, enabled, pc, allIssues, outcome, phase, published,
                 fatalShown, preCategories, sameInput, runVars, toolVars>>

\* The exit codes and stderr texts the children of a scan end with.
ScanExitCodes == {0, 2}

ScanStderrTexts == {"", "fatal: config not found"}

ScanStdoutKinds == {"empty", "text", "objectNoIssues"}

\* What the child of the awaited category may have written to stdout.
Stdouts(cat) ==
  { MkStdout(k, NoIssues) : k \in ScanStdoutKinds }
    \cup { MkStdout("object", is) :
             is \in SeqsUpTo(Pool(cat), MaxIssues - Len(allIssues)) }

Next ==
  \/ \E document \in Files : ScanFile(document)
  \/ ScanProject
  \/ \E code \in ScanExitCodes, stderr \in ScanStderrTexts :
       \E stdout \in Stdouts(pc) : ProcClose(code, stderr, stdout)
  \/ ProcError
  \/ ClearErrors

Spec == Init /\ [][Next]_vars

(***************************************************************************)
(* runMago on its own: one call after another, each child ending with any  *)
(* exit code, stderr and stdout, or failing to spawn.                      *)
(***************************************************************************)
RunStdouts ==
  { MkStdout(k, NoIssues) : k \in StdoutKinds }
    \cup { MkStdout("object", <<i>>) : i \in GuardPool }

Runs ==
  { MkRun(code, stderr, stdout, "none") :
      code \in ExitCodes, stderr \in StderrTexts, stdout \in RunStdouts }

InitRun ==
  /\ ScanInit
  /\ enabled = [c \in CategorySet |-> c # "guard"]
  /\ run \in Runs
  /\ settlement = Pending
  /\ previous = NoPrevious
  /\ ArgsInit
  /\ ProviderInit
  /\ EditInit
  /\ MapperInit
  /\ SaveInit
  /\ RestInit

\* The child closes.
RunClose ==
  /\ settlement.settled = "pending"
  /\ run' = [run EXCEPT !.event = "close"]
  /\ settlement' = CloseHandler(run.code, run.stderr, run.stdout)
  /\ UNCHANGED <<previous, scanVars, toolVars>>

\* The child cannot be spawned.
RunError ==
  /\ settlement.settled = "pending"
  /\ run' = [run EXCEPT !.event = "error"]
  /\ settlement' = ErrorHandler("spawn mago ENOENT")
  /\ UNCHANGED <<previous, scanVars, toolVars>>

\* The next call of runMago.
RunAgain(next) ==
  /\ settlement.settled # "pending"
  /\ previous' = [run |-> run, settlement |-> settlement]
  /\ run' = next
  /\ settlement' = Pending
  /\ UNCHANGED <<scanVars, toolVars>>

NextRun ==
  \/ RunClose
  \/ RunError
  \/ \E next \in Runs : RunAgain(next)

SpecRun == InitRun /\ [][NextRun]_vars

(***************************************************************************)
(* The invokers on their own: under one configuration, one call after      *)
(* another of scanFile / scanProject / lintFix (through runMago), of       *)
(* runMago with args that already hold options, of generateBaseline, of    *)
(* runFormatCommand and of runFormatCommandStdin, each up to its spawn or   *)
(* to the error it throws instead; the call then settles and the next one  *)
(* is made.  What an invoker builds depends on the settings and on its     *)
(* arguments alone.                                                        *)
(***************************************************************************)
BinPaths ==
  { <<"mago">>, <<>>, <<" ">>, <<"${workspaceFolder}", "/vendor/bin/mago">>,
    <<"${env:UNSET}">> }

BinCommands ==
  { <<>>,
    << <<"docker">>, <<"exec">>, <<"mago">> >>,
    << <<>>, <<"docker">>, <<"mago">> >>,
    << <<" ">> >>,
    << <<" ">>, <<"mago">> >>,
    << <<"${env:UNSET}">>, <<"mago">> >>,
    << <<"${workspaceFolder}", "/run.sh">>, <<" ">>, <<"mago">> >> }

ConfigFiles == { <<>>, <<"mago.toml">>, <<"${workspaceFolder}", "/mago.toml">> }

PhpVersions == { <<>>, <<"8.3">> }

ThreadCounts == {0, 4}

MinimumReportLevels == { <<>>, <<"error">> }

LintBaselines == { <<"lint-baseline.toml">>, <<"${workspaceRoot}", "/lint-baseline.toml">> }

Configs ==
  [ binPath : BinPaths, binCommand : BinCommands, configFile : ConfigFiles,
    phpVersion : PhpVersions, threads : ThreadCounts,
    minimumReportLevel : MinimumReportLevels, useBaselines : BOOLEAN,
    lintBaseline : LintBaselines,
    analysisBaseline : { <<"analysis-baseline.toml">> },
    guardBaseline : { <<"${env:MAGO_HOME}", "/guard-baseline.toml">> },
    formatAfterLintFix : {FALSE}, vendorBinary : BOOLEAN ]

\* the document of a single-file scan or format
DocumentPath == <<"/w/src/a.php">>

\* args of direct calls of runMago that already hold an option runMago adds
SuppliedArgs ==
  { << <<"lint">>, <<"--minimum-report-level">>, <<"warning">> >>,
    << <<"analyze">>, <<"--minimum-report-level=", "warning">>, <<"--threads=", "2">> >>,
    << <<"lint">>, <<"--workspace">>, <<"/other">>, <<"--config=", "x.toml">>,
       <<"--php-version">>, <<"8.1">> >> }

InitArgs ==
  /\ ScanInit
  /\ enabled = [c \in CategorySet |-> c # "guard"]
  /\ run = NoRun
  /\ settlement = Pending
  /\ previous = NoPrevious
  /\ config \in Configs
  /\ caller = "none"
  /\ callerArgs = <<>>
  /\ paths = <<>>
  /\ invocation = NoInvocation
  /\ ProviderInit
  /\ EditInit
  /\ MapperInit
  /\ SaveInit
  /\ RestInit

\* One call of runMago(args) by `who`, up to the spawn.
CallRunMago(who, args, positional) ==
  /\ caller = "none"
  /\ caller' = who
  /\ callerArgs' = args
  /\ paths' = positional
  /\ invocation' = RunMagoSpawn(config, args, WorkspaceRoot)
  /\ UNCHANGED <<config, scanVars, runVars, providerVars, editVars, mapperVars, saveVars, restVars>>

\* scanFile(document): the runMago call of one category
ScanFileSpawn(type) ==
  CallRunMago("scanFile", ScanArgs(config, type, DocumentPath, WorkspaceRoot),
              <<DocumentPath>>)

\* scanProject(): the runMago call of one category
ScanProjectSpawn(type) ==
  CallRunMago("scanProject", ScanArgs(config, type, <<>>, WorkspaceRoot), <<>>)

LintFixSpawn(safetyLevel) ==
  CallRunMago("lintFix", LintFixArgs(config, safetyLevel, WorkspaceRoot), <<>>)

RunMagoSupplied(args) == CallRunMago("runMago", args, <<>>)

GenerateBaseline(type) ==
  /\ caller = "none"
  /\ caller' = "generateBaseline"
  /\ callerArgs' = <<>>
  /\ paths' = <<>>
  /\ invocation' = GenerateBaselineSpawn(config, type, WorkspaceRoot)
  /\ UNCHANGED <<config, scanVars, runVars, providerVars, editVars, mapperVars, saveVars, restVars>>

\* formatFile (one path), formatProject (no path), formatStaged (--staged)
RunFormatCommand(formatPaths) ==
  /\ caller = "none"
  /\ caller' = "runFormatCommand"
  /\ callerArgs' = <<>>
  /\ paths' = IF formatPaths = <<DocumentPath>> THEN formatPaths ELSE <<>>
  /\ invocation' = RunFormatCommandSpawn(config, formatPaths, WorkspaceRoot)
  /\ UNCHANGED <<config, scanVars, runVars, providerVars, editVars, mapperVars, saveVars, restVars>>

RunFormatCommandStdin ==
  /\ caller = "none"
  /\ caller' = "runFormatCommandStdin"
  /\ callerArgs' = <<>>
  /\ paths' = <<>>
  /\ invocation' = RunFormatCommandStdinSpawn(config, WorkspaceRoot)
  /\ UNCHANGED <<config, scanVars, runVars, providerVars, editVars, mapperVars, saveVars, restVars>>

\* The call has settled (the child ended, or the error was reported).
InvokerSettled ==
  /\ caller # "none"
  /\ caller' = "none"
  /\ callerArgs' = <<>>
  /\ paths' = <<>>
  /\ invocation' = NoInvocation
  /\ UNCHANGED <<config, scanVars, runVars, providerVars, editVars, mapperVars, saveVars, restVars>>

ScanTypes == {"lint", "analyze", "guard"}

NextArgs ==
  \/ \E type \in ScanTypes : ScanFileSpawn(type)
  \/ \E type \in ScanTypes : ScanProjectSpawn(type)
  \/ \E safetyLevel \in {"safe", "unsafe", "potentially-unsafe"} : LintFixSpawn(safetyLevel)
  \/ \E args \in SuppliedArgs : RunMagoSupplied(args)
  \/ \E type \in ScanTypes : GenerateBaseline(type)
  \/ \E formatPaths \in { <<>>, << <<"--staged">> >>, <<DocumentPath>> } :
       RunFormatCommand(formatPaths)
  \/ RunFormatCommandStdin
  \/ InvokerSettled

SpecArgs == InitArgs /\ [][NextArgs]_vars

(***************************************************************************)
(* The code-action provider on its own: updateDiagnostics publishes a      *)
(* batch (as a scan does), the editor asks for the actions of a document,  *)
(* the user runs a suppress action, the request ends.                      *)
(***************************************************************************)
\* diagnosticCollection.get(uri): the diagnostics published for a file
PublishedFor(collection, f) ==
  IF f \in DOMAIN collection THEN collection[f] ELSE <<>>

\* every issue of every category, tagged as the scan tags it
TaggedPool ==
  UNION { { Tag(issue, cat) : issue \in Pool(cat) } : cat \in CategorySet }

InitProvider ==
  /\ ScanInit
  /\ enabled = [c \in CategorySet |-> c # "guard"]
  /\ run = NoRun
  /\ settlement = Pending
  /\ previous = NoPrevious
  /\ ArgsInit
  /\ ProviderInit
  /\ EditInit
  /\ MapperInit
  /\ SaveInit
  /\ RestInit

\* updateDiagnostics(result), called at the end of a scan
UpdateDiagnostics(result) ==
  /\ request.document.path = ""
  /\ LET r == UpdateDiagnosticsResult(result, diagnosticCollection, issueMap)
     IN /\ diagnosticCollection' = r.collection
        /\ issueMap' = r.index
  /\ UNCHANGED <<statusBar, enabled, pc, allIssues, outcome, phase, published,
                 fatalShown, preCategories, lastInput, sameInput, runVars,
                 toolVars>>

\* The diagnostic as the editor hands it over after a line was inserted above it.
Shifted(diagnostic) ==
  [diagnostic EXCEPT !.range = Range(@.startLine + 1, @.startCharacter,
                                     @.endLine + 1, @.endCharacter)]

\* What context.diagnostics may hold for a document: the diagnostics published
\* for it, as published or shifted by an edit, the same with the source of
\* another extension, and the same without a code.
RequestDiagnostics(path) ==
  LET shown == { diagnosticCollection[path][i] :
                   i \in 1..Len(PublishedFor(diagnosticCollection, path)) }
      mago == shown \cup { Shifted(d) : d \in shown }
  IN mago \cup { [d EXCEPT !.source = "phpcs"] : d \in shown }
          \cup { [d EXCEPT !.code = ""] : d \in shown }

RequestRanges == { Range(0, 0, 0, 0), Range(0, 0, 0, 2) }

RequestEditors ==
  { NoEditor } \cup { MkEditor(path, selection) : path \in Files, selection \in RequestRanges }

RequestDocuments ==
  { MkDocument(path, "php", scheme) : path \in Files, scheme \in {"file", "untitled"} }
    \cup { MkDocument("a.php", "plaintext", "file") }

\* The editor asks for the code actions of a document.
ProvideCodeActions(document, range, editor, diagnostics) ==
  /\ request.document.path = ""
  /\ request' = [document |-> document, range |-> range, editor |-> editor,
                 diagnostics |-> diagnostics]
  /\ actions' = provideCodeActions(document, range, editor, diagnostics, issueMap)
  /\ lastEdit' = NoEdit
  /\ UNCHANGED <<scanVars, runVars, argVars, editVars, mapperVars, saveVars, restVars>>

\* The user runs the k-th action, a suppress action: mago.addSuppression
AddSuppression(k) ==
  /\ request.document.path # ""
  /\ k \in 1..Len(actions)
  /\ actions[k].command = "mago.addSuppression"
  /\ ~lastEdit.applied
  /\ lastEdit' = [ AddSuppressionEdit(request.document.path, actions[k].line,
                                      actions[k].suppressionCode)
                   EXCEPT !.action = k ]
  /\ UNCHANGED <<request, actions, scanVars, runVars, argVars, editVars, mapperVars, saveVars, restVars>>

\* The request is over.
RequestDone ==
  /\ request.document.path # ""
  /\ request' = NoRequest
  /\ actions' = <<>>
  /\ lastEdit' = NoEdit
  /\ UNCHANGED <<scanVars, runVars, argVars, editVars, mapperVars, saveVars, restVars>>

NextProvider ==
  \/ \E result \in SeqsUpTo(TaggedPool, MaxIssues) : UpdateDiagnostics(result)
  \/ ClearErrors
  \/ \E document \in RequestDocuments, range \in RequestRanges, editor \in RequestEditors :
       \E diagnostics \in SeqsUpTo(RequestDiagnostics(document.path), 1) :
         ProvideCodeActions(document, range, editor, diagnostics)
  \/ \E k \in 1..2 : AddSuppression(k)
  \/ RequestDone

SpecProvider == InitProvider /\ [][NextProvider]_vars

(***************************************************************************)
(* The comment commands run on an open document: SpecEdit.                 *)
(***************************************************************************)
\* A document takes at most this many commands before another one is opened.
MaxCommands == 2

\* The texts a PHP document is opened with.
Documents ==
  { \* the opening tag on the first line, a closing brace above an indented line
    << <<"<?php">>, <<"f();">>, <<"}">>, <<" ", " ", "g();">> >>,
    \* the opening tag on the first line, behind other text
    << <<"<html>", "<?php">>, <<" ", "h();">>, <<"?>">> >>,
    \* a blank line, then the opening tag
    << <<>>, <<"<?php">>, <<" ", " ", " ", " ", "];">>, <<" ", " ", "i();">> >>,
    \* a single line
    << <<"<?php">> >> }

\* the lines a diagnostic may name: those of the text and, for a diagnostic
\* that outlived an edit, the one below the last
IssueLines(lines) == 0..Len(lines)

\* the ranges a selection in the text may span
Selections(lines) ==
  { Range(s, 0, e, 1) : s \in 0..(Len(lines) - 1), e \in 0..(Len(lines) - 1) }

MkCommand(name, line, range, applied) ==
  [name |-> name, line |-> line, range |-> range, applied |-> applied]

NoCommand == MkCommand("none", 0, Range(0, 0, 0, 0), FALSE)

InitEdit ==
  /\ ScanInit
  /\ enabled = [c \in CategorySet |-> c # "guard"]
  /\ run = NoRun
  /\ settlement = Pending
  /\ previous = NoPrevious
  /\ ArgsInit
  /\ ProviderInit
  /\ openText \in Documents
  /\ textBefore = openText
  /\ editCommand = NoCommand
  /\ editResult = MkCommandResult(<<>>, "none")
  /\ editCount = 0
  /\ MapperInit
  /\ SaveInit
  /\ RestInit

\* A command runs to its end: the insertions it makes are applied to the text
\* unless workspace.applyEdit reports that it did not apply them.
RunCommand(command, result) ==
  /\ editCount < MaxCommands
  /\ editCommand' = command
  /\ editResult' = result
  /\ textBefore' = openText
  /\ openText' = IF command.applied THEN ApplyInserts(openText, result.inserts)
                 ELSE openText
  /\ editCount' = editCount + 1
  /\ UNCHANGED <<scanVars, runVars, argVars, providerVars, mapperVars, saveVars, restVars>>

\* 'mago.addSuppression' for an issue on the given line
AddSuppressionAt(line, applied) ==
  RunCommand(MkCommand("addSuppression", line, Range(line, 0, line, 0), applied),
             addSuppression(openText, line, "lint:K1", applied))

\* 'mago.addFormatIgnoreFile'
AddFormatIgnoreFile(applied) ==
  RunCommand(MkCommand("addFormatIgnoreFile", 0, Range(0, 0, 0, 0), applied),
             addFormatIgnoreFile(openText, applied))

\* 'mago.addFormatIgnoreNext' on a selection
AddFormatIgnoreNext(range, applied) ==
  RunCommand(MkCommand("addFormatIgnoreNext", range.startLine, range, applied),
             addFormatIgnoreNext(openText, range, applied))

\* 'mago.addFormatIgnoreRegion' on a selection
AddFormatIgnoreRegion(range, applied) ==
  RunCommand(MkCommand("addFormatIgnoreRegion", range.startLine, range, applied),
             addFormatIgnoreRegion(openText, range, applied))

\* Another document is opened.
OpenDocument(lines) ==
  /\ editCount > 0
  /\ openText' = lines
  /\ textBefore' = lines
  /\ editCommand' = NoCommand
  /\ editResult' = MkCommandResult(<<>>, "none")
  /\ editCount' = 0
  /\ UNCHANGED <<scanVars, runVars, argVars, providerVars, mapperVars, saveVars, restVars>>

NextEdit ==
  \/ \E line \in IssueLines(openText), applied \in BOOLEAN : AddSuppressionAt(line, applied)
  \/ \E applied \in BOOLEAN : AddFormatIgnoreFile(applied)
  \/ \E range \in Selections(openText), applied \in BOOLEAN :
       AddFormatIgnoreNext(range, applied)
  \/ \E range \in Selections(openText), applied \in BOOLEAN :
       AddFormatIgnoreRegion(range, applied)
  \/ \E lines \in Documents : OpenDocument(lines)

SpecEdit == InitEdit /\ [][NextEdit]_vars

(***************************************************************************)
(* The mapper and the publisher on their own: SpecMapper.                  *)
(***************************************************************************)
\* A file read by the mapper holds at most this many characters.
MaxContent == 3

\* A list handed to updateDiagnostics holds at most this many issues.
MaxBatch == 2

FileTexts == SeqsUpTo(Characters, MaxContent)

\* the byte offsets at which a character of the text starts, and its end
ByteOffsets(text) == { ByteLength(SubSeq(text, 1, k)) : k \in 0..Len(text) }

InitMapper ==
  /\ ScanInit
  /\ enabled = [c \in CategorySet |-> c # "guard"]
  /\ run = NoRun
  /\ settlement = Pending
  /\ previous = NoPrevious
  /\ ArgsInit
  /\ ProviderInit
  /\ EditInit
  /\ MapperInit
  /\ SaveInit
  /\ RestInit

\* getColumnFromOffset(filePath, offset) on a file that can be read; the mapper
\* is exercised on its own before any list is reconciled
GetColumnFromOffset(offset) ==
  /\ ~lastInput.valid
  /\ byteOffset' = offset
  /\ column' = ColumnInContent(ReadFileSync(fileText), offset)
  /\ UNCHANGED <<fileText, scanVars, runVars, argVars, providerVars, editVars, saveVars, restVars>>

\* the file on disk is replaced
WriteFile(text) ==
  /\ ~lastInput.valid
  /\ fileText' = text
  /\ byteOffset' = -1
  /\ column' = 0
  /\ UNCHANGED <<scanVars, runVars, argVars, providerVars, editVars, saveVars, restVars>>

\* updateDiagnostics(result)
Reconcile(result) ==
  /\ byteOffset = -1
  /\ fileText = <<>>
  /\ LET r == UpdateDiagnosticsResult(result, diagnosticCollection, issueMap)
     IN /\ diagnosticCollection' = r.collection
        /\ issueMap' = r.index
  /\ lastInput' = [valid |-> TRUE, issues |-> result]
  /\ UNCHANGED <<statusBar, enabled, pc, allIssues, outcome, phase, published,
                 fatalShown, preCategories, sameInput, runVars, toolVars>>

NextMapper ==
  \/ \E offset \in ByteOffsets(fileText) : GetColumnFromOffset(offset)
  \/ \E text \in FileTexts : WriteFile(text)
  \/ \E result \in SeqsUpTo(TaggedPool, MaxBatch) : Reconcile(result)

SpecMapper == InitMapper /\ [][NextMapper]_vars

(***************************************************************************)
(* Scans started by saving a document, and children that never exit:       *)
(* SpecSave.                                                               *)
(***************************************************************************)
SaveSettings ==
  [runOnSave : BOOLEAN, runOnSaveScope : {"project", "file"},
   runGuardOnSave : BOOLEAN]

\* the documents that may be saved
SavedDocuments ==
  { MkDocument("a.php", "php", "file"), MkDocument("a.php", "php", "untitled"),
    MkDocument("a.php", "plaintext", "file"), MkDocument("c.inc", "php", "file") }

\* document.uri.fsPath.endsWith('.php')
EndsWithPhp(path) == path \in Files

InitSave ==
  /\ ScanInit
  /\ enabled \in [CategorySet -> BOOLEAN]
  /\ run = NoRun
  /\ settlement = Pending
  /\ previous = NoPrevious
  /\ ArgsInit
  /\ ProviderInit
  /\ EditInit
  /\ MapperInit
  /\ saveSettings \in SaveSettings
  /\ trigger = "none"
  /\ childHung = FALSE
  /\ RestInit

\* workspace.onDidSaveTextDocument, registered when mago.runOnSave was set at
\* activation: scanProject() or scanFile(document) for a PHP file
OnDidSaveTextDocument(document) ==
  /\ saveSettings.runOnSave
  /\ document.languageId = "php"
  /\ document.scheme = "file"
  /\ saveSettings.runOnSaveScope = "file" => EndsWithPhp(document.path)
  /\ BeginScan
  /\ trigger' = "save"
  /\ UNCHANGED <<enabled, runVars, argVars, providerVars, editVars, mapperVars,
                 saveSettings, childHung, restVars>>

\* the Scan Project command
ScanProjectCommand ==
  /\ BeginScan
  /\ trigger' = "command"
  /\ UNCHANGED <<enabled, runVars, argVars, providerVars, editVars, mapperVars,
                 saveSettings, childHung, restVars>>

\* The child the scan awaits is one that never exits: no close event and no
\* error event will come.
ChildHangs ==
  /\ pc \in CategorySet
  /\ ~childHung
  /\ childHung' = TRUE
  /\ UNCHANGED <<scanVars, runVars, argVars, providerVars, editVars, mapperVars,
                 saveSettings, trigger, restVars>>

\* what the children of these scans write to stdout
SaveStdouts == { MkStdout("empty", NoIssues), MkStdout("objectNoIssues", NoIssues) }

\* The child the scan awaits ends: it closes, or it could not be spawned.
ChildEnds ==
  /\ ~childHung
  /\ \/ \E code \in ScanExitCodes, stderr \in ScanStderrTexts, stdout \in SaveStdouts :
          ProcClose(code, stderr, stdout)
     \/ ProcError

NextSave ==
  \/ \E document \in SavedDocuments : OnDidSaveTextDocument(document)
  \/ ScanProjectCommand
  \/ ChildHangs
  \/ ChildEnds

SpecSave == InitSave /\ [][NextSave]_vars

\* A child that is not one that never exits ends, and its event is handled.
SpecSaveLive == SpecSave /\ WF_vars(ChildEnds)

(***************************************************************************)
(* The extension host with operations in flight together.  scanFile,       *)
(* scanProject and lintFix are asynchronous functions: each runs without   *)
(* interruption from one await of runMago to the next, and a command, a    *)
(* timer callback, the event of another child or deactivate may run while  *)
(* it is suspended.                                                        *)
(***************************************************************************)
\* the issues the children report here: one that converts, one of another
\* file, one without level and one whose span has no file_id
HostPool(cat) ==
  CASE cat = "lint" -> { MkIssue("K1", "m1", "span", "a.php", 0, 1, 0, 2, TRUE) }
    [] cat = "analysis" ->
         { MkIssue("K1", "m5", "span", "b.php", 1, 4, 1, 5, FALSE),
           WithoutLevel(MkIssue("K2", "m9", "span", "a.php", 0, 1, 0, 2, FALSE)),
           MkIssue("K3", "m10", "nofileid", "", 0, 0, 0, 0, FALSE) }
    [] OTHER -> GuardPool

\* the code of the close event of a child that a signal ended: null
KilledCode == -1

\* the subcommand whose child a task awaits
Subcommand(task) == IF task.pc = "fix" THEN "lint" ELSE task.pc

\* the exit code, stderr and stdout the awaited child of a task may end with; a
\* child started for one file reports issues of that file
HostRuns(task) ==
  LET reported == { i \in HostPool(Subcommand(task)) :
                      task.kind # "scanFile" \/ i.path \in {task.target, ""} }
      stdouts == { MkStdout("empty", NoIssues) }
                   \cup { MkStdout("object", <<i>>) : i \in reported }
  IN IF task.killed
     THEN { <<KilledCode, "", stdout>> : stdout \in stdouts }
     ELSE { <<0, "", stdout>> : stdout \in stdouts }
            \cup { <<2, "fatal: config not found", MkStdout("empty", NoIssues)>> }

FreeSlots == { t \in 1..MaxTasks : tasks[t].kind = "none" }

\* the slot a new operation takes
FirstFree == CHOOSE t \in FreeSlots : \A u \in FreeSlots : t <= u

\* what no operation of the host touches
hostFrame ==
  <<enabled, pc, allIssues, outcome, phase, preCategories, sameInput, runVars,
    argVars, providerVars, editVars, mapperVars, saveVars, formatVars, serverVars>>

\* whether a scan that reaches its end calls updateDiagnostics whatever else is
\* in flight or has published: nothing compares it with other scans
PublishesAtEnd_newestOnly(order) == AnyEnabled /\ order > lastPublisher

PublishesAtEnd(order) == AnyEnabled

\* The end of scanFile / scanProject for the task of slot t: updateDiagnostics
\* with the merged list, the outer catch when it throws, and in the finally
\* block updateStatusBar('idle').  A disposed collection shows nothing.
FinishScan(t, issues, order) ==
  /\ tasks' = [tasks EXCEPT ![t] = NoTask]
  /\ statusBar' = "idle"
  /\ IF PublishesAtEnd(order)
     THEN LET r == UpdateDiagnosticsResult(issues, diagnosticCollection, issueMap)
          IN /\ diagnosticCollection' =
                  IF deactivated THEN diagnosticCollection ELSE r.collection
             /\ issueMap' = r.index
             /\ published' = ~r.thrown
             /\ fatalShown' = r.thrown
             /\ lastInput' = [valid |-> TRUE, issues |-> issues]
             /\ IF r.thrown
                THEN UNCHANGED <<lastPublisher, overtaken>>
                ELSE /\ lastPublisher' = order
                     /\ overtaken' = (order < lastPublisher)
     ELSE UNCHANGED <<diagnosticCollection, issueMap, published, fatalShown,
                      lastInput, lastPublisher, overtaken>>

\* runMago for the task of slot t: the child is spawned and runningProcess set
SpawnFor(t, kind, target, awaited, issues, order) ==
  /\ tasks' = [tasks EXCEPT ![t] = MkTask(kind, target, awaited, issues, order, FALSE)]
  /\ runningProcess' = t

\* whether lintFix sets the timer of the re-scan
RescanAfterFix_always(settled, issuesFixed, runOnSave) == settled = "resolve"

RescanAfterFix(settled, issuesFixed, runOnSave) ==
  settled = "resolve" /\ issuesFixed > 0 /\ runOnSave

\* The body of scanFile / scanProject / lintFix up to its first await, in the
\* first free slot.
BeginTask(kind, target) ==
  LET t == FirstFree
      order == started + 1
      first == IF kind = "lintFix" THEN "fix" ELSE FirstEnabledFrom(1)
  IN /\ FreeSlots # {}
     /\ started' = order
     /\ IF first = "end"
        THEN /\ FinishScan(t, <<>>, order)
             /\ UNCHANGED runningProcess
        ELSE /\ SpawnFor(t, kind, target, first, <<>>, order)
             /\ statusBar' = "running"
             /\ UNCHANGED <<diagnosticCollection, issueMap, published, fatalShown,
                            lastInput, lastPublisher, overtaken>>

\* the starts that timers may still make: one for every timer that has been
\* set and for every lintFix in flight
Reserved ==
  timers + Cardinality({ t \in 1..MaxTasks : tasks[t].kind = "lintFix" })

\* a command or a save starts an operation that may make `further` starts: the
\* extension is active, and a slot and a start stay free for every timer
MayStart(further) ==
  /\ ~deactivated
  /\ started + Reserved + further < MaxStarts
  /\ Cardinality(FreeSlots) > timers

\* scanFile(document), by the save listener or the Scan File command
HostScanFile(document) ==
  /\ MayStart(0)
  /\ BeginTask("scanFile", document)
  /\ UNCHANGED <<deactivated, timers, rescans, fixed, hostFrame>>

\* scanProject(), by the save listener or the Scan Project command
HostScanProject ==
  /\ MayStart(0)
  /\ BeginTask("scanProject", "project")
  /\ UNCHANGED <<deactivated, timers, rescans, fixed, hostFrame>>

\* lintFix(safetyLevel), with a workspace folder open
HostLintFix(safetyLevel) ==
  /\ MayStart(1)
  /\ BeginTask("lintFix", "project")
  /\ UNCHANGED <<deactivated, timers, rescans, fixed, hostFrame>>

\* the callback of setTimeout(..., 100) in lintFix: scanProject()
TimerFires ==
  /\ timers > 0
  /\ timers' = timers - 1
  /\ rescans' = rescans + 1
  /\ BeginTask("scanProject", "project")
  /\ UNCHANGED <<deactivated, fixed, hostFrame>>

\* The promise of the awaited runMago of slot t has settled: the scan goes on
\* to its next category or to its end, lintFix to its messages and its timer.
Continue(t, s) ==
  LET task == tasks[t]
      issues == task.issues \o TagAll(ResultIssues(s), Subcommand(task))
      target == IF s.settled = "resolve" THEN AfterResolve(task.pc)
                ELSE AfterReject(task.pc)
  IN IF task.kind = "lintFix"
     THEN LET issuesFixed == Len(ResultIssues(s))
          IN /\ tasks' = [tasks EXCEPT ![t] = NoTask]
             /\ runningProcess' = 0
             /\ statusBar' = "idle"
             /\ fixed' = IF s.settled = "resolve" /\ issuesFixed > 0
                         THEN fixed + 1 ELSE fixed
             /\ timers' = IF RescanAfterFix(s.settled, issuesFixed,
                                            saveSettings.runOnSave)
                          THEN timers + 1 ELSE timers
             /\ UNCHANGED <<diagnosticCollection, issueMap, published, fatalShown,
                            lastInput, lastPublisher, overtaken>>
     ELSE /\ UNCHANGED <<fixed, timers>>
          /\ IF target \in CategorySet
             THEN /\ SpawnFor(t, task.kind, task.target, target, issues, task.order)
                  /\ UNCHANGED <<statusBar, diagnosticCollection, issueMap, published,
                                 fatalShown, lastInput, lastPublisher, overtaken>>
             ELSE /\ runningProcess' = 0
                  /\ FinishScan(t, issues, task.order)

\* proc.on('close'): runningProcess = undefined, then the promise settles
HostClose(t, code, stderr, stdout) ==
  /\ tasks[t].kind # "none"
  /\ Continue(t, CloseHandler(code, stderr, stdout))
  /\ UNCHANGED <<deactivated, rescans, started, hostFrame>>

\* proc.on('error'): runningProcess = undefined, then the promise rejects
HostError(t) ==
  /\ tasks[t].kind # "none"
  /\ ~tasks[t].killed
  /\ Continue(t, ErrorHandler("spawn mago ENOENT"))
  /\ UNCHANGED <<deactivated, rescans, started, hostFrame>>

\* the Clear Errors command
HostClearErrors ==
  /\ ~deactivated
  /\ diagnosticCollection' = ClearCollection(diagnosticCollection)
  /\ statusBar' = "idle"
  /\ lastInput' = [valid |-> FALSE, issues |-> <<>>]
  /\ UNCHANGED <<issueMap, published, fatalShown, hostVars, hostFrame>>

\* deactivate(): the tracked child is killed and the collection disposed
Deactivate ==
  /\ ~deactivated
  /\ deactivated' = TRUE
  /\ tasks' = IF runningProcess # 0
              THEN [tasks EXCEPT ![runningProcess].killed = TRUE]
              ELSE tasks
  /\ runningProcess' = 0
  /\ diagnosticCollection' = ClearCollection(diagnosticCollection)
  /\ UNCHANGED <<issueMap, statusBar, published, fatalShown, lastInput, timers,
                 rescans, started, fixed, lastPublisher, overtaken, hostFrame>>

SafetyLevels == {"safe", "unsafe", "potentially-unsafe"}

\* the settings of the categories at activation: none, lint, or lint and
\* analyze (the defaults)
HostEnabled ==
  { [c \in CategorySet |-> Position(c) <= n] : n \in 0..2 }

InitHost ==
  /\ ScanInit
  /\ enabled \in HostEnabled
  /\ run = NoRun
  /\ settlement = Pending
  /\ previous = NoPrevious
  /\ ArgsInit
  /\ ProviderInit
  /\ EditInit
  /\ MapperInit
  /\ saveSettings \in { s \in SaveSettings :
                          s.runOnSaveScope = "project" /\ ~s.runGuardOnSave }
  /\ trigger = "none"
  /\ childHung = FALSE
  /\ RestInit

NextHost ==
  \/ \E document \in Files : HostScanFile(document)
  \/ HostScanProject
  \/ \E safetyLevel \in SafetyLevels : HostLintFix(safetyLevel)
  \/ TimerFires
  \/ \E t \in 1..MaxTasks : \E r \in HostRuns(tasks[t]) : HostClose(t, r[1], r[2], r[3])
  \/ \E t \in 1..MaxTasks : HostError(t)
  \/ HostClearErrors
  \/ Deactivate

SpecHost == InitHost /\ [][NextHost]_vars

\* the event loop of a host that has not been shut down runs the callback of a
\* timer that has been set
SpecHostLive == SpecHost /\ WF_vars(~deactivated /\ TimerFires)

(***************************************************************************)
(* formatDocument: the text of the document is written to the stdin of     *)
(* `mago format --stdin-input`, and when the formatter has exited its      *)
(* output replaces the whole document.  The document stays open in the     *)
(* editor meanwhile, and its text may change.                              *)
(***************************************************************************)
TextCharacters == {"a", "b", " "}

Texts == SeqsUpTo(TextCharacters, MaxText)

NoInput == <<"none">>

\* what the formatter prints for a text: here, the text without the blanks at
\* its ends
MagoFormat(text) == Trim(text)

\* formattedText !== document.getText(): the comparison is with the text the
\* document has when the formatter has exited
ReplacesDocument_ifUnedited(formattedText, input, current) ==
  formattedText # current /\ input = current

ReplacesDocument(formattedText, input, current) == formattedText # current

\* formatDocument(document) up to its await: nothing for a document that is not
\* a PHP file, or when mago.enableFormat is off
FormatDocument(document, enableFormat) ==
  /\ formatInput = NoInput
  /\ IF document.languageId # "php" \/ document.scheme # "file"
     THEN /\ formatResult' = "skipped"
          /\ UNCHANGED <<formatInput, statusBar>>
     ELSE IF ~enableFormat
     THEN /\ formatResult' = "disabled"
          /\ statusBar' = "idle"
          /\ UNCHANGED formatInput
     ELSE /\ formatInput' = documentText
          /\ formatResult' = "running"
          /\ statusBar' = "running"
  /\ UNCHANGED <<documentText, diagnosticCollection, issueMap, enabled, pc,
                 allIssues, outcome, phase, published, fatalShown, preCategories,
                 lastInput, sameInput, runVars, argVars, providerVars, editVars,
                 mapperVars, saveVars, hostVars, serverVars>>

\* the user types a character at the end of the document, or deletes the last
TypeText(text) ==
  /\ \/ Len(documentText) < MaxText /\ \E c \in TextCharacters :
          text = Append(documentText, c)
     \/ documentText # <<>> /\ text = SubSeq(documentText, 1, Len(documentText) - 1)
  /\ documentText' = text
  /\ UNCHANGED <<formatInput, formatResult, scanVars, runVars, argVars,
                 providerVars, editVars, mapperVars, saveVars, hostVars, serverVars>>

\* proc.on('close') of the formatter: resolve(stdout) for code 0, else reject;
\* then formatDocument replaces the document, or shows the error
FormatterExits(code) ==
  /\ formatInput # NoInput
  /\ LET formattedText == MagoFormat(formatInput)
     IN IF code # 0
        THEN /\ formatResult' = "failed"
             /\ UNCHANGED documentText
        ELSE IF ReplacesDocument(formattedText, formatInput, documentText)
        THEN /\ documentText' = formattedText
             /\ formatResult' = "replaced"
        ELSE /\ formatResult' = "unchanged"
             /\ UNCHANGED documentText
  /\ formatInput' = NoInput
  /\ statusBar' = "idle"
  /\ UNCHANGED <<diagnosticCollection, issueMap, enabled, pc, allIssues, outcome,
                 phase, published, fatalShown, preCategories, lastInput, sameInput,
                 runVars, argVars, providerVars, editVars, mapperVars, saveVars,
                 hostVars, serverVars>>

\* proc.on('error') or proc.stdin.on('error'): the promise rejects
FormatterFails ==
  /\ formatInput # NoInput
  /\ formatInput' = NoInput
  /\ formatResult' = "failed"
  /\ statusBar' = "idle"
  /\ UNCHANGED <<documentText, diagnosticCollection, issueMap, enabled, pc,
                 allIssues, outcome, phase, published, fatalShown, preCategories,
                 lastInput, sameInput, runVars, argVars, providerVars, editVars,
                 mapperVars, saveVars, hostVars, serverVars>>

InitFormat ==
  /\ ScanInit
  /\ enabled = [c \in CategorySet |-> c # "guard"]
  /\ run = NoRun
  /\ settlement = Pending
  /\ previous = NoPrevious
  /\ ArgsInit
  /\ ProviderInit
  /\ EditInit
  /\ MapperInit
  /\ SaveInit
  /\ HostInit
  /\ documentText \in Texts
  /\ formatInput = NoInput
  /\ formatResult = "none"
  /\ ServerInit

NextFormat ==
  \/ \E document \in SavedDocuments, enableFormat \in BOOLEAN :
       FormatDocument(document, enableFormat)
  \/ \E text \in Texts : TypeText(text)
  \/ \E code \in {0, 1} : FormatterExits(code)
  \/ FormatterFails

SpecFormat == InitFormat /\ [][NextFormat]_vars

(***************************************************************************)
(* The server's ErrorManager: the diagnostics it stores per URI and sends  *)
(* to the client, updated by the results of the lint and the analyze       *)
(* watchers.                                                               *)
(***************************************************************************)
UpdateTypes == {"lint", "analyze"}

MkServerIssue(code, severity, line_, column_, message) ==
  [code |-> code, severity |-> severity, line |-> line_, column |-> column_,
   message |-> message]

\* the issues a result of each type may hold for a file
ServerIssues(type) ==
  IF type = "lint"
  THEN { MkServerIssue("lint-1", "warning", 1, 1, "l1"),
         MkServerIssue("lint-2", "help", 2, 3, "l2") }
  ELSE { MkServerIssue("analyze-1", "error", 1, 1, "a1") }

ServerPaths == {"/w/a.php", "/w/b.php"}

\* issueToDiagnostic(issue)
issueToDiagnostic(issue) ==
  [severity |-> CASE issue.severity = "error" -> "Error"
                  [] issue.severity = "warning" -> "Warning"
                  [] issue.severity = "note" -> "Information"
                  [] OTHER -> "Hint",
   startLine |-> issue.line - 1, startCharacter |-> issue.column - 1,
   endLine |-> issue.line - 1, endCharacter |-> issue.column,
   message |-> issue.message, code |-> issue.code, source |-> "mago"]

\* filePathToUri(filePath), for a path written with forward slashes
filePathToUri(filePath) == "file://" \o filePath

\* isDiagnosticOfType(diagnostic, type)
isDiagnosticOfType(diagnostic, type) == TRUE

\* diagnostics.filter(d => !this.isDiagnosticOfType(d, type))
OtherTypeDiagnostics(diagnostics, type) ==
  SelectSeq(diagnostics, LAMBDA d : ~isDiagnosticOfType(d, type))

MapIssues(issues) == [i \in 1..Len(issues) |-> issueToDiagnostic(issues[i])]

\* the first loop of handleDiagnosticsUpdate, over the entries of result.files:
\* what it leaves in the map for a URI
Reported(files, type, stored) ==
  [uri \in { filePathToUri(fp) : fp \in DOMAIN files } |->
     LET filePath == CHOOSE fp \in DOMAIN files : filePathToUri(fp) = uri
         existingDiagnostics == IF uri \in DOMAIN stored THEN stored[uri] ELSE <<>>
     IN OtherTypeDiagnostics(existingDiagnostics, type) \o MapIssues(files[filePath])]

\* the second loop, over the entries of the map that result.files does not
\* name: the entries it sets
Unreported(files, type, stored) ==
  LET reportedFiles == { filePathToUri(fp) : fp \in DOMAIN files }
      changed == { uri \in DOMAIN stored \ reportedFiles :
                     Len(OtherTypeDiagnostics(stored[uri], type)) # Len(stored[uri]) }
  IN [uri \in changed |-> OtherTypeDiagnostics(stored[uri], type)]

\* the updates of the watchers: a type and, for some files, their issues
Updates ==
  UNION { { [type |-> type, files |-> files] :
              files \in UNION { [paths_ -> SeqsUpTo(ServerIssues(type), MaxFileIssues)] :
                                  paths_ \in SUBSET ServerPaths } } :
          type \in UpdateTypes }

serverFrame ==
  <<scanVars, runVars, argVars, providerVars, editVars, mapperVars, saveVars,
    hostVars, formatVars>>

\* ErrorManager.handleDiagnosticsUpdate(update)
HandleDiagnosticsUpdate(update) ==
  LET reported == Reported(update.files, update.type, serverDiagnostics)
      cleared == Unreported(update.files, update.type, reported @@ serverDiagnostics)
  IN /\ serverDiagnostics' = cleared @@ reported @@ serverDiagnostics
     /\ sentDiagnostics' = cleared @@ reported @@ sentDiagnostics
     /\ lastUpdate' = update
     /\ UNCHANGED serverFrame

\* ErrorManager.clearAllDiagnostics()
ClearAllDiagnostics ==
  /\ sentDiagnostics' =
       [uri \in { u \in DOMAIN serverDiagnostics : Len(serverDiagnostics[u]) > 0 }
          |-> <<>>] @@ sentDiagnostics
  /\ serverDiagnostics' = EmptyMap
  /\ lastUpdate' = NoUpdate
  /\ UNCHANGED serverFrame

\* ErrorManager.clearDiagnosticsForFile(uri)
ClearDiagnosticsForFile(uri) ==
  /\ IF uri \in DOMAIN serverDiagnostics
     THEN /\ serverDiagnostics' =
               [u \in DOMAIN serverDiagnostics \ {uri} |-> serverDiagnostics[u]]
          /\ sentDiagnostics' = (uri :> <<>>) @@ sentDiagnostics
     ELSE UNCHANGED <<serverDiagnostics, sentDiagnostics>>
  /\ lastUpdate' = NoUpdate
  /\ UNCHANGED serverFrame

InitServer ==
  /\ ScanInit
  /\ enabled = [c \in CategorySet |-> c # "guard"]
  /\ run = NoRun
  /\ settlement = Pending
  /\ previous = NoPrevious
  /\ ArgsInit
  /\ ProviderInit
  /\ EditInit
  /\ MapperInit
  /\ SaveInit
  /\ RestInit

NextServer ==
  \/ \E update \in Updates : HandleDiagnosticsUpdate(update)
  \/ ClearAllDiagnostics
  \/ \E fp \in ServerPaths : ClearDiagnosticsForFile(filePathToUri(fp))

SpecServer == InitServer /\ [][NextServer]_vars

(***************************************************************************)
(* Vocabulary of the properties.                                           *)
(***************************************************************************)
\* The latest scan has finished.
Finished == phase = "done" /\ pc = "idle"

\* The step that finishes a scan.
Finishing == phase = "running" /\ phase' = "done"

\* The published state is the one the latest scan's updateDiagnostics call left.
JustPublished == Finished /\ published /\ lastInput.valid

\* The diagnostics of one category published for one file, in order.
CategoryDiagnostics(collection, f, cat) ==
  SelectSeq(PublishedFor(collection, f),
            LAMBDA d : \E k \in IssueCodes : d.code = CategoryPrefix(cat) \o ":" \o k)

SeqRange(seq) == { seq[i] : i \in 1..Len(seq) }

\* The issues of a list that carry a span in file f, in order.
SpannedIn(issues, f) ==
  SelectSeq(issues, LAMBDA i : i.ann = "span" /\ i.path = f)

\* The span's start does not lie after its end once both are clamped.
StartNotAfterEnd(issue) ==
  ~IsAfter(Max(0, issue.startLine), getColumnFromOffset(issue.path, issue.startOffset),
           Max(0, issue.endLine), getColumnFromOffset(issue.path, issue.endOffset))

\* C1: the step that publishes a scan's result removes no diagnostic published for
\* a category whose invocation did not resolve in that scan (it failed or did not run).
C1_CategoryIsolation ==
  [][ (Finishing /\ published') =>
        \A c \in CategorySet :
          outcome'[c].settled # "resolve" =>
            \A f \in Files :
              CategoryDiagnostics(diagnosticCollection', f, c)
                = CategoryDiagnostics(diagnosticCollection, f, c) ]_vars

\* C2: in a scan an invocation of which exited with code 2, text on stderr and an
\* empty stdout (and no invocation of which resolved), that invocation rejects with
\* the stderr text as its message, and the step that finishes the scan leaves the
\* published diagnostics and the issue index as they were.
C2_FatalExitChangesNothing ==
  [][ ( /\ Finishing
        /\ \E c \in CategorySet : outcome'[c].exit2 # "no"
        /\ \A c \in CategorySet : outcome'[c].settled # "resolve" ) =>
        /\ \A c \in CategorySet : outcome'[c].exit2 \in {"no", "stderr"}
        /\ diagnosticCollection' = diagnosticCollection
        /\ issueMap' = issueMap ]_vars

\* C3: when an invocation of a finished scan rejected, the scan surfaced no fatal
\* error and called updateDiagnostics, every issue returned by an invocation that
\* resolved is in the merged list, and (until Clear Errors runs) each of them that
\* has a span is published under its file with its category's composite code.
C3_FailureIsolation ==
  (Finished /\ \E c \in CategorySet : outcome[c].settled = "reject") =>
    /\ ~fatalShown
    /\ published
    /\ \A c \in CategorySet :
         outcome[c].settled = "resolve" =>
           \A i \in 1..Len(outcome[c].issues) :
             LET issue == outcome[c].issues[i] IN
             /\ Tag(issue, c) \in SeqRange(allIssues)
             /\ (lastInput.valid /\ issue.ann = "span") =>
                  \E d \in SeqRange(PublishedFor(diagnosticCollection, issue.path)) :
                    /\ d.message = issue.message
                    /\ d.code = CategoryPrefix(c) \o ":" \o issue.code

\* C3 witness: the guard invocation rejected and the lint issue is published.
C3_Witness ==
  /\ JustPublished
  /\ outcome["guard"].settled = "reject"
  /\ outcome["lint"].settled = "resolve"
  /\ \E i \in 1..Len(outcome["lint"].issues) :
       /\ outcome["lint"].issues[i].ann = "span"
       /\ \E d \in SeqRange(PublishedFor(diagnosticCollection, outcome["lint"].issues[i].path)) :
            d.message = outcome["lint"].issues[i].message

\* C4: after the publication of a scan in which a category that had diagnostics
\* published resolved with zero issues, no diagnostic of that category is published
\* for any file.
C4_NoStaleEntries ==
  JustPublished =>
    \A c \in preCategories :
      (outcome[c].settled = "resolve" /\ outcome[c].issues = <<>>) =>
        \A f \in Files : CategoryDiagnostics(diagnosticCollection, f, c) = <<>>

\* C4 witness: a category with published diagnostics resolved with zero issues and
\* the scan has published.
C4_Witness ==
  /\ JustPublished
  /\ \E c \in preCategories :
       outcome[c].settled = "resolve" /\ outcome[c].issues = <<>>

\* C5: every published diagnostic, looked up in the issue index under the key the
\* code-action provider builds for it, yields the issue that produced it.
C5_IndexRoundTrip ==
  JustPublished =>
    \A f \in Files :
      \A k \in 1..Len(PublishedFor(diagnosticCollection, f)) :
        LET key == ProviderKey(f, diagnosticCollection[f][k]) IN
        /\ key \in DOMAIN issueMap
        /\ k <= Len(SpannedIn(lastInput.issues, f))
        /\ issueMap[key] = SpannedIn(lastInput.issues, f)[k]

\* What C6 says of the issues without a span: none is in the issue index.
NoIndexEntryWithoutSpan ==
  \A key \in DOMAIN issueMap : issueMap[key].ann = "span"

\* C6 as stated: one diagnostic per issue with a span, in order, whose range
\* starts at span.start.line and at the mapper's column for span.start.offset;
\* nothing published and nothing indexed for an issue without a span.
C6_AsStated ==
  JustPublished =>
    /\ NoIndexEntryWithoutSpan
    /\ \A f \in Files :
         LET given == SpannedIn(lastInput.issues, f)
             shown == PublishedFor(diagnosticCollection, f)
         IN /\ Len(shown) = Len(given)
            /\ \A k \in 1..Len(given) :
                 /\ shown[k].message = given[k].message
                 /\ shown[k].range.startLine = given[k].startLine
                 /\ shown[k].range.startCharacter
                      = getColumnFromOffset(f, given[k].startOffset)

\* C6 amended: one diagnostic per issue with a span, in order; when the span's
\* start does not lie after its end, the range starts at max(0, span.start.line)
\* and at the mapper's column for span.start.offset; nothing published and
\* nothing indexed for an issue without a span.
C6_OneDiagnosticPerIssue ==
  JustPublished =>
    /\ NoIndexEntryWithoutSpan
    /\ \A f \in Files :
         LET given == SpannedIn(lastInput.issues, f)
             shown == PublishedFor(diagnosticCollection, f)
         IN /\ Len(shown) = Len(given)
            /\ \A k \in 1..Len(given) :
                 /\ shown[k].message = given[k].message
                 /\ StartNotAfterEnd(given[k]) =>
                      /\ shown[k].range.startLine = Max(0, given[k].startLine)
                      /\ shown[k].range.startCharacter
                           = getColumnFromOffset(f, given[k].startOffset)

\* C6 witness: a published batch that holds an issue with a span whose start does
\* not lie after its end, and a diagnostic is published for its file.
C6_Witness ==
  /\ JustPublished
  /\ \E i \in 1..Len(lastInput.issues) :
       /\ lastInput.issues[i].ann = "span"
       /\ StartNotAfterEnd(lastInput.issues[i])
       /\ Len(PublishedFor(diagnosticCollection, lastInput.issues[i].path)) > 0

\* C7: a call of updateDiagnostics with the list the call before it got (no
\* Clear Errors in between) leaves the published diagnostics and the issue index
\* as they were.
C7_Idempotent ==
  [][ (Finishing /\ published' /\ sameInput') =>
        /\ diagnosticCollection' = diagnosticCollection
        /\ issueMap' = issueMap ]_vars

\* C7 witness: the latest call got the list of the call before it, and the list
\* holds an issue that is published.
C7_Witness ==
  /\ JustPublished
  /\ sameInput
  /\ \E f \in Files : Len(PublishedFor(diagnosticCollection, f)) > 0

(***************************************************************************)
(* Properties of runMago's close handler, under SpecRun.                   *)
(***************************************************************************)
ParsesAsObject(stdout) == stdout.kind \in {"object", "objectNoIssues"}

\* C8 as stated: a closed call resolves exactly when stdout parses as a JSON
\* object, or the exit code is 0 and stdout is blank; an object without issues
\* counts as an empty issue list.
C8_AsStated ==
  run.event = "close" =>
    /\ (settlement.settled = "resolve")
         <=> ( \/ ParsesAsObject(run.stdout)
               \/ (run.code = 0 /\ run.stdout.kind \in {"empty", "blank"}) )
    /\ (settlement.settled = "resolve" /\ run.stdout.kind = "objectNoIssues")
         => ResultIssues(settlement) = <<>>

\* C8 amended: a closed call resolves exactly when stdout parses as a JSON object
\* or array, or parses as a JSON number, string or boolean while the exit code is
\* not 0 and stderr is not empty, or the exit code is 0 and stdout is blank; an
\* object without issues counts as an empty issue list.
C8_Classification ==
  run.event = "close" =>
    /\ (settlement.settled = "resolve")
         <=> ( \/ ParsesAsObject(run.stdout)
               \/ run.stdout.kind = "array"
               \/ /\ run.stdout.kind \in {"number", "string", "boolean"}
                  /\ run.code # 0
                  /\ run.stderr # ""
               \/ (run.code = 0 /\ run.stdout.kind \in {"empty", "blank"}) )
    /\ (settlement.settled = "resolve" /\ run.stdout.kind = "objectNoIssues")
         => ResultIssues(settlement) = <<>>

\* C8 witness: a call that exited with a non-zero code and text on stderr has
\* resolved on a stdout that is a JSON number, after a call that exited with 0 and
\* rejected the same stdout.
C8_Witness ==
  /\ run.event = "close"
  /\ run.code # 0
  /\ run.stderr # ""
  /\ run.stdout.kind = "number"
  /\ settlement.settled = "resolve"
  /\ previous.run.event = "close"
  /\ previous.run.code = 0
  /\ previous.run.stdout.kind = "number"
  /\ previous.settlement.settled = "reject"

\* C9: a closed call with a non-zero exit code and a stdout that is no JSON
\* rejects with the stderr text when there is one, and otherwise with a generic
\* message naming the exit code.
C9_RejectMessage ==
  (run.event = "close" /\ run.code # 0 /\ ~JSONParse(run.stdout).ok) =>
    /\ settlement.settled = "reject"
    /\ settlement.message =
         IF run.stderr # "" THEN run.stderr
         ELSE "Mago exited with code " \o ToString(run.code)

\* C10: the failure of a call that exited with code 0 and a malformed stdout
\* carries a message that no failure of a call with a non-zero exit code carries.
C10_DistinctParseFailure ==
  ( /\ previous.run.event = "close"
    /\ previous.run.code = 0
    /\ previous.settlement.settled = "reject"
    /\ run.event = "close"
    /\ run.code # 0
    /\ settlement.settled = "reject" ) =>
    settlement.message # previous.settlement.message

(***************************************************************************)
(* Properties of the argument vectors and of the executable, under         *)
(* SpecArgs.                                                               *)
(***************************************************************************)
HasSpawned == caller # "none" /\ invocation.outcome = "spawn"

\* the positions of a flag in a vector, in either of its two forms
FlagPositions(v, flag) == { i \in 1..Len(v) : IsFlag(v[i], flag) }

SubcommandTokens == { <<sub>> : sub \in Subcommands }

\* the position of the first subcommand token of a vector, 0 when it has none
SubcommandIndex(v) ==
  LET at == { i \in 1..Len(v) : v[i] \in SubcommandTokens }
  IN IF at = {} THEN 0 ELSE CHOOSE i \in at : \A j \in at : i <= j

\* the setting a top-level flag is emitted for is set
IsSet(cfg, flag) ==
  IF flag = "--workspace" THEN TRUE
  ELSE IF flag = "--config" THEN cfg.configFile # <<>>
  ELSE IF flag = "--php-version" THEN cfg.phpVersion # <<>>
  ELSE cfg.threads # 0

\* C11: in every spawned vector the binCommand prefix tokens come first, and each
\* of --workspace, --config, --php-version and --threads that the caller did not
\* supply is emitted when its setting is set, and every occurrence of it lies
\* after the prefix tokens and strictly before the subcommand token.
C11_ArgumentOrdering ==
  HasSpawned =>
    LET v == invocation.fullArgs
        n == Len(invocation.prefix)
        sub == SubcommandIndex(v)
    IN /\ n <= Len(v)
       /\ SubSeq(v, 1, n) = invocation.prefix
       /\ sub > 0
       /\ \A flag \in TopLevelFlags :
            ~Supplied(callerArgs, flag) =>
              /\ IsSet(config, flag) => FlagPositions(v, flag) # {}
              /\ \A i \in FlagPositions(v, flag) : n < i /\ i < sub

\* C11 witness: a spawn with two prefix tokens and all four settings set.
C11_Witness ==
  /\ HasSpawned
  /\ Len(invocation.prefix) = 2
  /\ \A flag \in TopLevelFlags :
       IsSet(config, flag) /\ FlagPositions(invocation.fullArgs, flag) # {}

\* the options a scan puts after its subcommand
ScanOptions == {"--reporting-format", "--baseline", "--minimum-report-level"}

\* C12: in every vector spawned for a scan, each subcommand option (with its
\* value) lies after the subcommand token and before every positional path.
C12_OptionsBeforePaths ==
  (HasSpawned /\ caller \in {"scanFile", "scanProject"}) =>
    LET v == invocation.fullArgs
        sub == SubcommandIndex(v)
        positional == { p \in 1..Len(v) : \E k \in 1..Len(paths) : v[p] = paths[k] }
    IN \A option \in ScanOptions :
         \A i \in FlagPositions(v, option) :
           /\ sub > 0 /\ sub < i
           /\ \A p \in positional : i + 1 < p

\* C13: for each option runMago adds, when the caller's args hold it (as the exact
\* flag or as a token starting with the flag and '='), the spawned vector holds it
\* exactly as many times as the caller's args do.
C13_NoDuplicateFlag ==
  (HasSpawned /\ invocation.invoker = "runMago") =>
    \A flag \in TopLevelFlags \cup SubcommandFlags :
      Supplied(callerArgs, flag) =>
        Cardinality(FlagPositions(invocation.fullArgs, flag))
          = Cardinality(FlagPositions(callerArgs, flag))

\* C13 witness: the caller supplied --minimum-report-level and --threads, both of
\* which are set in the configuration, and runMago has spawned.
C13_Witness ==
  /\ HasSpawned
  /\ invocation.invoker = "runMago"
  /\ Supplied(callerArgs, "--minimum-report-level")
  /\ Supplied(callerArgs, "--threads")
  /\ config.minimumReportLevel # <<>>
  /\ config.threads # 0

\* the binCommand tokens that are not blank
UsableTokens(cfg) == SelectSeq(cfg.binCommand, LAMBDA token : Trim(token) # <<>>)

\* The setting an invoker takes its executable from, trimmed and substituted:
\* the first binCommand token that is not blank when binCommand's first token
\* is not empty, else binPath (the discovered binary, or for runMago "mago",
\* standing in for an empty binPath).
ChosenExecutable(cfg, invoker) ==
  IF cfg.binCommand # <<>> /\ cfg.binCommand[1] # <<>>
  THEN IF UsableTokens(cfg) = <<>> THEN <<>>
       ELSE resolvePath(Trim(UsableTokens(cfg)[1]), WorkspaceRoot)
  ELSE LET found == cfg.vendorBinary /\ Trim(cfg.binPath) \in {<<>>, <<"mago">>}
           binPath == IF found THEN WorkspaceRoot \o <<"/vendor/bin/mago">>
                      ELSE IF invoker = "runMago" /\ cfg.binPath = <<>> THEN <<"mago">>
                      ELSE cfg.binPath
       IN resolvePath(Trim(binPath), WorkspaceRoot)

ConfigurationErrors ==
  { "mago.binCommand is set but contains no valid commands. Please check your settings.",
    "mago.binCommand is set but contains no valid commands.",
    "Mago binary path is not configured. Please set mago.binPath in settings.",
    "Invalid Mago executable: \"\". Please set mago.binPath in settings.",
    "Invalid Mago executable. Please set mago.binPath in settings." }

\* C14: an invoker whose executable, trimmed and substituted, is empty or blank
\* throws a configuration error and spawns nothing; no process is spawned with an
\* empty or blank executable.
C14_NoSpawnWithoutExecutable ==
  caller # "none" =>
    /\ Trim(ChosenExecutable(config, invocation.invoker)) = <<>>
         => invocation.outcome = "error"
    /\ invocation.outcome = "error"
         => invocation.fullArgs = <<>> /\ invocation.message \in ConfigurationErrors
    /\ invocation.outcome = "spawn" => Trim(invocation.executable) # <<>>

\* C14 witness: binPath is an environment variable that is not set, there is no
\* binCommand, and the invoker has thrown.
C14_Witness ==
  /\ caller # "none"
  /\ config.binCommand = <<>>
  /\ config.binPath = <<"${env:UNSET}">>
  /\ invocation.outcome = "error"

\* C15: when binCommand holds a token that is not blank, its non-blank tokens are
\* the executable and the prefix; otherwise, when binPath is not blank, binPath is
\* the executable; an error is thrown only when neither yields an executable.
C15_ExecutableResolution ==
  caller # "none" =>
    LET usable == UsableTokens(config)
        resolved == [i \in 1..Len(usable) |-> resolvePath(Trim(usable[i]), WorkspaceRoot)]
    IN IF usable # <<>>
       THEN resolved[1] # <<>> =>
              /\ invocation.outcome = "spawn"
              /\ invocation.executable = resolved[1]
              /\ invocation.prefix = Tail(resolved)
       ELSE resolvePath(Trim(config.binPath), WorkspaceRoot) # <<>> =>
              /\ invocation.outcome = "spawn"
              /\ invocation.prefix = <<>>

\* the pieces of a string
Pieces(text) == { text[i] : i \in 1..Len(text) }

\* C16: neither the executable nor any argument of a spawned process holds a
\* variable token that was left unsubstituted.
C16_NoUnsubstitutedVariable ==
  HasSpawned =>
    /\ Pieces(invocation.executable) \cap VariableTokens = {}
    /\ \A i \in 1..Len(invocation.fullArgs) :
         Pieces(invocation.fullArgs[i]) \cap VariableTokens = {}

(***************************************************************************)
(* Properties of the code-action provider, under SpecProvider.             *)
(***************************************************************************)
Requested == request.document.path # ""

\* the diagnostics of the request that are Mago's and carry a code
MagoDiagnostics ==
  { d \in SeqRange(request.diagnostics) : d.source = "mago" /\ d.code # "" }

Resolves(d) == ProviderKey(request.document.path, d) \in DOMAIN issueMap

ResolvedIssue(d) == issueMap[ProviderKey(request.document.path, d)]

ActionsFor(d, command) ==
  { k \in 1..Len(actions) : actions[k].command = command /\ actions[k].diagnostic = d }

\* C17: for every Mago diagnostic of a request a suppress action is returned, and
\* for one whose key is not in the issue index no apply-fix action is returned.
C17_SuppressAlwaysOffered ==
  Requested =>
    \A d \in MagoDiagnostics :
      /\ ActionsFor(d, "mago.addSuppression") # {}
      /\ ~Resolves(d) => ActionsFor(d, "mago.applyFix") = {}

\* C18: an apply-fix action is returned for a Mago diagnostic of a request exactly
\* when its key resolves in the issue index to an issue with edits, and the action
\* carries that issue.
C18_ApplyFixIffEdits ==
  Requested =>
    \A d \in MagoDiagnostics :
      /\ (ActionsFor(d, "mago.applyFix") # {})
           <=> (Resolves(d) /\ ResolvedIssue(d).edits)
      /\ \A k \in ActionsFor(d, "mago.applyFix") : actions[k].issue = ResolvedIssue(d)

\* C18 witness: a request holds a diagnostic whose key resolves and for which an
\* apply-fix action was returned.
C18_Witness ==
  /\ Requested
  /\ \E d \in MagoDiagnostics :
       /\ ActionsFor(d, "mago.applyFix") # {}
       /\ Resolves(d)

\* C19: the code in a suppress action's label and arguments, and in the comment
\* that running the action inserts, is the composite code of its diagnostic.
C19_CategoryTokenConsistency ==
  Requested =>
    /\ \A k \in 1..Len(actions) :
         actions[k].command = "mago.addSuppression" =>
           /\ actions[k].suppressionCode = actions[k].diagnostic.code
           /\ actions[k].title
                = "Suppress with @mago-expect " \o actions[k].diagnostic.code
    /\ lastEdit.applied =>
         lastEdit.comment = "// @mago-expect " \o actions[lastEdit.action].diagnostic.code

\* the request carries a selection: its range is not empty, or the active editor
\* shows the document with a selection that is not empty
CarriesSelection ==
  \/ ~IsEmptyRange(request.range)
  \/ /\ request.editor.path = request.document.path
     /\ ~IsEmptyRange(request.editor.selection)

FormatIgnoreReturned ==
  { actions[k].command : k \in 1..Len(actions) } \cap FormatIgnoreCommands

\* C20: a request with a selection in a PHP file (languageId php, scheme file) gets
\* the three format-ignore actions, once each, whatever its diagnostics are; a
\* request without a selection gets none of them.
C20_FormatIgnoreOnSelection ==
  Requested =>
    /\ ( /\ CarriesSelection
         /\ request.document.languageId = "php"
         /\ request.document.scheme = "file" ) =>
         /\ FormatIgnoreReturned = FormatIgnoreCommands
         /\ \A c \in FormatIgnoreCommands :
              Cardinality({ k \in 1..Len(actions) : actions[k].command = c }) = 1
    /\ ~CarriesSelection => FormatIgnoreReturned = {}

\* C20 witness: a request with no diagnostic whose selection comes from the active
\* editor has got the three format-ignore actions.
C20_Witness ==
  /\ Requested
  /\ request.diagnostics = <<>>
  /\ IsEmptyRange(request.range)
  /\ CarriesSelection
  /\ FormatIgnoreReturned = FormatIgnoreCommands

(***************************************************************************)
(* Properties of the comment commands, under SpecEdit.                     *)
(***************************************************************************)
\* the latest command was the named one, made insertions and had them applied
Edited(name) ==
  /\ editCommand.name = name
  /\ editCommand.applied
  /\ editResult.inserts # <<>>

\* after is before with lineText put in as line n (counted from 0) and every
\* line of before kept, in order
LineInsertedAt(before, after, n, lineText) ==
  /\ Len(after) = Len(before) + 1
  /\ n \in 0..Len(before)
  /\ after[n + 1] = lineText
  /\ \A i \in 1..Len(before) :
       IF i <= n THEN after[i] = before[i] ELSE after[i + 1] = before[i]

\* the line is made of closing brackets and separators only, blanks around them aside
SolelyClosingPunctuation(lineText) ==
  /\ Trim(lineText) # <<>>
  /\ \A i \in 1..Len(Trim(lineText)) : ClosingOnly(Trim(lineText)[i])

C22_MarkerDirectlyAboveSelection ==
  Edited("addFormatIgnoreNext") =>
    LET s == editCommand.range.startLine
    IN LineInsertedAt(textBefore, openText, s,
                      Indentation(textBefore[s + 1]) \o <<FormatIgnoreNextMarker>>)

\* C23 as stated: the start marker of a region carries the leading whitespace of
\* the line above the selection's first line and the end marker that of the line
\* below the selection's last line.
C23_AsStated ==
  ( /\ Edited("addFormatIgnoreRegion")
    /\ editCommand.range.startLine >= 1
    /\ editCommand.range.endLine + 1 < Len(textBefore) ) =>
    LET s == editCommand.range.startLine
        e == editCommand.range.endLine
    IN /\ editResult.inserts[1].text
            = Indentation(textBefore[s]) \o <<FormatIgnoreStartMarker, NL>>
       /\ editResult.inserts[2].text
            = Indentation(textBefore[e + 2]) \o <<FormatIgnoreEndMarker, NL>>

\* C23: addFormatIgnoreRegion writes the start marker with the leading whitespace
\* of the selection's first line and the end marker with the leading whitespace
\* of the selection's last line, each taken from its own line.
C23_RegionIndentation ==
  Edited("addFormatIgnoreRegion") =>
    LET s == editCommand.range.startLine
        e == editCommand.range.endLine
    IN /\ Len(editResult.inserts) = 2
       /\ editResult.inserts[1].text
            = Indentation(textBefore[s + 1]) \o <<FormatIgnoreStartMarker, NL>>
       /\ editResult.inserts[2].text
            = Indentation(textBefore[e + 1]) \o <<FormatIgnoreEndMarker, NL>>

\* C23 witness: a region was marked whose first and last line differ in their
\* leading whitespace, and whose neighbours differ from them.
C23_Witness ==
  /\ Edited("addFormatIgnoreRegion")
  /\ editCommand.range.startLine >= 1
  /\ editCommand.range.endLine + 1 < Len(textBefore)
  /\ LET s == editCommand.range.startLine
         e == editCommand.range.endLine
     IN /\ Indentation(textBefore[s + 1]) # Indentation(textBefore[e + 1])
        /\ Indentation(textBefore[s + 1]) # Indentation(textBefore[s])
        /\ Indentation(textBefore[e + 1]) # Indentation(textBefore[e + 2])
        /\ editResult.inserts[1].text
             = Indentation(textBefore[s + 1]) \o <<FormatIgnoreStartMarker, NL>>

\* the line holds the marker and, before it, blanks only
IsMarkerLine(lineText, marker) == lineText = Indentation(lineText) \o <<marker>>

\* C24: after addFormatIgnoreRegion on a selection of lines s..e the start marker
\* is the line directly before the original line s, the end marker the line
\* directly after the original line e, the lines s..e and only they lie between
\* the two, and the lines outside the selection are kept in their order.
C24_RegionPlacement ==
  Edited("addFormatIgnoreRegion") =>
    LET s == editCommand.range.startLine
        e == editCommand.range.endLine
    IN /\ Len(openText) = Len(textBefore) + 2
       /\ IsMarkerLine(openText[s + 1], FormatIgnoreStartMarker)
       /\ IsMarkerLine(openText[e + 3], FormatIgnoreEndMarker)
       /\ \A i \in 1..Len(textBefore) :
            openText[ IF i <= s THEN i ELSE IF i <= e + 1 THEN i + 1 ELSE i + 2 ]
              = textBefore[i]

\* C25: addFormatIgnoreFile on a text that holds a format-ignore marker makes no
\* edit and shows a warning; on any other text it makes one insertion of the
\* marker, at line 1 when the first line contains the opening tag and at line 0
\* otherwise, and the text that results holds a marker, so that a second call
\* in succession makes no edit.
C25_FileMarkerPlacement ==
  editCommand.name = "addFormatIgnoreFile" =>
    IF HasIgnoreMarker(GetText(textBefore))
    THEN /\ editResult = MkCommandResult(<<>>, "warning")
         /\ openText = textBefore
    ELSE /\ editResult.inserts
              = << MkInsert(IF \E i \in 1..Len(textBefore[1]) :
                                 textBefore[1][i] = OpeningTag
                            THEN 1 ELSE 0,
                            0, <<FormatIgnoreMarker, NL>>) >>
         /\ editCommand.applied => HasIgnoreMarker(GetText(openText))

(***************************************************************************)
(* Properties of the mapper and the publisher, under SpecMapper.           *)
(***************************************************************************)
\* the issues of the latest list that carry a span
Spanned(issues) == SelectSeq(issues, LAMBDA i : i.ann = "span")

\* C26: when the file of an issue cannot be read, the diagnostic published for
\* the issue lies at column 0 (start and end), and the list still gets one
\* diagnostic for each of its issues with a span, the unreadable one included.
C26_ReadFailureIsSoft ==
  lastInput.valid =>
    /\ \A f \in Files :
         LET given == SpannedIn(lastInput.issues, f)
             shown == PublishedFor(diagnosticCollection, f)
         IN /\ Len(shown) = Len(given)
            /\ \A k \in 1..Len(given) :
                 /\ shown[k].message = given[k].message
                 /\ ~Readable(f) =>
                      /\ shown[k].range.startCharacter = 0
                      /\ shown[k].range.endCharacter = 0
                      /\ shown[k].range.startLine = Max(0, given[k].startLine)
                      /\ shown[k].range.endLine = Max(0, given[k].endLine)

\* C26 witness: a list of two issues, one in a file that cannot be read and one
\* in a file that can, was reconciled and both have their diagnostic.
C26_Witness ==
  /\ lastInput.valid
  /\ Len(lastInput.issues) = 2
  /\ \E f \in Files, g \in Files :
       /\ ~Readable(f)
       /\ Readable(g)
       /\ Len(SpannedIn(lastInput.issues, f)) = 1
       /\ Len(SpannedIn(lastInput.issues, g)) = 1
       /\ Len(PublishedFor(diagnosticCollection, f)) = 1
       /\ Len(PublishedFor(diagnosticCollection, g)) = 1
       /\ diagnosticCollection[f][1].range.startCharacter = 0

\* the characters of the text that lie before the byte offset
CharactersBefore(text, offset) ==
  LET k == CHOOSE n \in 0..Len(text) : ByteLength(SubSeq(text, 1, n)) = offset
  IN SubSeq(text, 1, k)

\* C27: for a readable file and a byte offset at which a character of it starts
\* (or its end), getColumnFromOffset returns the number of characters between the
\* last line feed before that position and the position.
C27_ColumnOfByteOffset ==
  byteOffset # -1 =>
    column = LastLineLength(CharactersBefore(fileText, byteOffset))

(***************************************************************************)
(* Properties of the scans started by a save, under SpecSave and           *)
(* SpecSaveLive.                                                           *)
(***************************************************************************)
\* the latest scan has spawned a guard invocation
GuardSpawned == pc = "guard" \/ outcome["guard"] # NotRun

\* C28: a scan started by saving a PHP file while mago.enableGuard is set and
\* mago.runGuardOnSave is not spawns no guard invocation, whatever the scope.
C28_NoGuardOnSave ==
  ( /\ trigger = "save"
    /\ enabled["guard"]
    /\ ~saveSettings.runGuardOnSave ) => ~GuardSpawned

\* C29: every scan that has started comes to its end, with the status bar back
\* at idle, also when a child process never exits.
C29_ScanCompletes ==
  (phase = "running") ~> (phase = "done" /\ statusBar = "idle")

(***************************************************************************)
(* Auto-discovery of the binary, under SpecArgs.                           *)
(***************************************************************************)
\* <workspaceRoot>/vendor/bin/mago
VendorPath == WorkspaceRoot \o <<"/vendor/bin/mago">>

\* mago.binPath is blank or the default
DefaultBinPath == Trim(config.binPath) \in { <<>>, <<"mago">> }

\* C30: in every invoker, with no binCommand set, a binPath that is blank or
\* "mago" and vendor/bin/mago in the workspace, the process is spawned with that
\* file as its executable; with a binCommand set the discovered file (there is
\* one and binPath would admit it) is never the executable, and with no
\* binCommand and another binPath the executable is that binPath, trimmed and
\* substituted.
C30_AutoDiscovery ==
  caller # "none" =>
    /\ ( /\ config.binCommand = <<>>
         /\ DefaultBinPath
         /\ config.vendorBinary ) =>
         /\ invocation.outcome = "spawn"
         /\ invocation.executable = VendorPath
         /\ invocation.prefix = <<>>
    /\ ( /\ config.binCommand # <<>>
         /\ DefaultBinPath
         /\ config.vendorBinary
         /\ invocation.outcome = "spawn" ) =>
         invocation.executable # VendorPath
    /\ ( /\ config.binCommand = <<>>
         /\ ~DefaultBinPath
         /\ invocation.outcome = "spawn" ) =>
         invocation.executable = resolvePath(Trim(config.binPath), WorkspaceRoot)

ScanEnds(t) ==
  /\ tasks[t].kind \in {"scanFile", "scanProject"}
  /\ tasks'[t].kind = "none"

IsPrefix(a, b) == Len(a) <= Len(b) /\ SubSeq(b, 1, Len(a)) = a

NothingInFlight == \A t \in 1..MaxTasks : tasks[t].kind = "none"

\* C32: overlapping scans are neither queued nor cancelled, and the last write
\* wins: whenever a scan of an active host reaches its end with a category
\* enabled, whatever was started or has published meanwhile, it hands its own
\* merged list to updateDiagnostics, and the diagnostics and the issue index
\* after that step are the result of that call alone; when the call returns,
\* that scan is the latest publisher, also when a scan started after it has
\* published before it.
C32_LastWriteWins ==
  [][\A t \in 1..MaxTasks :
       (ScanEnds(t) /\ AnyEnabled /\ ~deactivated) =>
         /\ lastInput'.valid
         /\ IsPrefix(tasks[t].issues, lastInput'.issues)
         /\ LET r == UpdateDiagnosticsResult(lastInput'.issues, diagnosticCollection,
                                             issueMap)
            IN /\ diagnosticCollection' = r.collection
               /\ issueMap' = r.index
               /\ ~r.thrown =>
                    /\ lastPublisher' = tasks[t].order
                    /\ overtaken' = (tasks[t].order < lastPublisher)]_vars

\* two scans were in flight together and the one started first published last:
\* what is published is its list
C32_Witness ==
  /\ overtaken
  /\ ~deactivated
  /\ NothingInFlight
  /\ started = 2
  /\ lastPublisher = 1
  /\ lastInput.valid
  /\ diagnosticCollection # EmptyMap
  /\ diagnosticCollection =
       UpdateDiagnosticsResult(lastInput.issues, EmptyMap, EmptyMap).collection

\* the slots whose task awaits a child of runMago that has not ended
LiveChildren == { t \in 1..MaxTasks : tasks[t].kind # "none" }

\* C33: while the extension is active and a child spawned by runMago is alive,
\* runningProcess refers to a live child, so that deactivate would kill one: the
\* end of one child never leaves it undefined while another child is running.
C33_TrackedWhileAlive ==
  (~deactivated /\ LiveChildren # {}) => runningProcess \in LiveChildren

\* the files of the issues of a list that updateDiagnostics converts
TouchedFiles(issues) ==
  { issues[i].path : i \in { j \in 1..Len(issues) : issues[j].ann = "span" } }

\* C34: a scan of one file changes the published diagnostics of the files of
\* its results only: when scanFile reaches its end, every other file that had
\* diagnostics published still has the same diagnostics published.
C34_FileScanFrame ==
  [][\A t \in 1..MaxTasks :
       (ScanEnds(t) /\ tasks[t].kind = "scanFile" /\ ~deactivated) =>
         \A g \in DOMAIN diagnosticCollection :
           g \notin TouchedFiles(lastInput'.issues) =>
             /\ g \in DOMAIN diagnosticCollection'
             /\ diagnosticCollection'[g] = diagnosticCollection[g]]_vars

\* the diagnostic built from the issue of an entry of the index is published
\* for the file of that issue
IsPublished(issue) ==
  /\ issue.path \in DOMAIN diagnosticCollection
  /\ \E i \in 1..Len(diagnosticCollection[issue.path]) :
       diagnosticCollection[issue.path][i] = MakeDiagnostic(issue)

\* C35: every entry of the issue index is the issue of a diagnostic that is
\* published now; after Clear Errors, when nothing is published, the index
\* holds no entry.
C35_IndexMatchesPublication ==
  \A key \in DOMAIN issueMap : IsPublished(issueMap[key])

\* C36: updateDiagnostics is all-or-nothing: when the call at the end of a
\* scan throws, the published diagnostics and the issue index are both as they
\* were before the call.
C36_AllOrNothing ==
  [][\A t \in 1..MaxTasks :
       (ScanEnds(t) /\ fatalShown') =>
         /\ diagnosticCollection' = diagnosticCollection
         /\ issueMap' = issueMap]_vars

\* runMago spawns a child for the task of slot t in this step
Spawns(t) ==
  /\ tasks'[t].kind # "none"
  /\ tasks[t].kind = "none" \/ tasks'[t].pc # tasks[t].pc

\* C37: shutdown is final: once deactivate has run, no operation spawns a
\* further child and the published diagnostics change no more; a scan whose
\* lint child deactivate killed does not spawn its analyze or guard child.
C37_ShutdownIsFinal ==
  [][deactivated =>
       /\ \A t \in 1..MaxTasks : ~Spawns(t)
       /\ diagnosticCollection' = diagnosticCollection]_vars

\* the operation of slot t reaches its end in this step
TaskEnds(t) == tasks[t].kind # "none" /\ tasks'[t].kind = "none"

\* C38: the status bar shows running as long as an operation is in flight: the
\* end of one operation leaves it at running while another is still in flight.
C38_RunningWhileInFlight ==
  [][\A t \in 1..MaxTasks :
       (TaskEnds(t) /\ ~deactivated /\ statusBar = "running"
          /\ \E u \in 1..MaxTasks : tasks'[u].kind # "none") =>
         statusBar' = "running"]_vars

(***************************************************************************)
(* formatDocument.                                                         *)
(***************************************************************************)
\* formatDocument ends in this step
FormatEnds == formatInput # NoInput /\ formatInput' = NoInput

\* C39: formatDocument loses no edit: when the text of the document is no
\* longer the text that was written to the formatter's stdin, the formatter's
\* output is not applied and the document keeps its newer text; and when the
\* formatter fails the document is left as it is.
C39_NoLostEdits ==
  [][FormatEnds =>
       /\ documentText # formatInput => documentText' = documentText
       /\ formatResult' = "failed" => documentText' = documentText]_vars

(***************************************************************************)
(* The server's ErrorManager.                                              *)
(***************************************************************************)
\* the type of the result a stored diagnostic came from, read off its code
TypeOfDiagnostic(diagnostic) ==
  CHOOSE type \in UpdateTypes :
    \E issue \in ServerIssues(type) : issue.code = diagnostic.code

\* the diagnostics of a list that did not come from a result of the type
KeptOfOtherType(diagnostics, type) ==
  SelectSeq(diagnostics, LAMBDA d : TypeOfDiagnostic(d) # type)

StoredFor(stored, uri) == IF uri \in DOMAIN stored THEN stored[uri] ELSE <<>>

\* C40: handleDiagnosticsUpdate keeps the diagnostics of the other type: after
\* an update of one type, a URI of the update holds, stored and sent, the
\* diagnostics it held of the other type followed by the new ones, and any other
\* URI holds what it held without its diagnostics of the updated type.
C40_OtherTypePreserved ==
  [][\A update \in Updates :
       HandleDiagnosticsUpdate(update) =>
         /\ \A fp \in DOMAIN update.files :
              LET uri == filePathToUri(fp)
                  expected == KeptOfOtherType(StoredFor(serverDiagnostics, uri),
                                              update.type)
                                \o MapIssues(update.files[fp])
              IN /\ StoredFor(serverDiagnostics', uri) = expected
                 /\ StoredFor(sentDiagnostics', uri) = expected
         /\ \A uri \in DOMAIN serverDiagnostics
                      \ { filePathToUri(fp) : fp \in DOMAIN update.files } :
              StoredFor(serverDiagnostics', uri) =
                KeptOfOtherType(serverDiagnostics[uri], update.type)]_vars

====
